---- MODULE Spec2Model ----
(***************************************************************************)
(* hubmap: USB hub port mapper.                                            *)
(*                                                                         *)
(* A JavaScript string is a sequence of one-character strings, so that the *)
(* regular expressions of lib/mapper.js and lib/store.js are computed on   *)
(* the characters.  null/undefined is the one-element sequence Null, which *)
(* no character sequence equals.                                           *)
(***************************************************************************)
EXTENDS Integers, Sequences, FiniteSets, TLC

VARIABLES
    obs,             \* Key Normalizer: an observation and what was extracted from it
    mappings, call,  \* PortMapper.mappings and the last PortMapper call
    file, storeCall, \* calibration.json and the last Calibration Store call
    pc, cli,         \* a run of a command: where it stands, and the process
    wizard,          \* calibrate: the step of the wizard and its document
    previousDrives,  \* monitor: the retained snapshot
    polls, inflight, \* monitor: polls started so far, and those still scanning
    lastPoll         \* monitor: the poll that completed last

normVars == <<obs>>
mapperVars == <<mappings, call>>
storeVars == <<file, storeCall>>
cliVars == <<pc, cli, wizard>>
monitorVars == <<previousDrives, polls, inflight, lastPoll>>
vars ==
    <<obs, mappings, call, file, storeCall, pc, cli, wizard, previousDrives, polls, inflight,
      lastPoll>>

----------------------------------------------------------------------------
(* Strings *)

Null == <<"null">>
Bs == "\\"

Max(S) == CHOOSE x \in S : \A y \in S : y <= x
Min(S) == CHOOSE x \in S : \A y \in S : x <= y

\* JS truthiness of a string-or-null: null, undefined and "" are falsy.
Truthy(s) == s # Null /\ s # <<>>

DigitSeq == <<"0", "1", "2", "3", "4", "5", "6", "7", "8", "9">>
Digits == {DigitSeq[i] : i \in 1..10}
HexUpper == {"A", "B", "C", "D", "E", "F"}
HexLower == {"a", "b", "c", "d", "e", "f"}
\* [A-F0-9] under the i flag
HexClass == Digits \cup HexUpper \cup HexLower

LowerSeq == <<"a", "b", "c", "d", "e", "f", "g", "h", "i", "j", "k", "l", "m",
              "n", "o", "p", "q", "r", "s", "t", "u", "v", "w", "x", "y", "z">>
UpperSeq == <<"A", "B", "C", "D", "E", "F", "G", "H", "I", "J", "K", "L", "M",
              "N", "O", "P", "Q", "R", "S", "T", "U", "V", "W", "X", "Y", "Z">>

UpperOf == [c \in {LowerSeq[i] : i \in 1..26} |-> UpperSeq[CHOOSE i \in 1..26 : LowerSeq[i] = c]]

ToUpperChar(c) == IF c \in DOMAIN UpperOf THEN UpperOf[c] ELSE c

\* String.prototype.toUpperCase
ToUpperCase(s) == [i \in 1..Len(s) |-> ToUpperChar(s[i])]

\* The length of the longest run of characters of cls that starts at s[i]:
\* what a greedy cls+ consumes when the next pattern character is not in cls.
RECURSIVE RunLen(_, _, _)
RunLen(s, i, cls) ==
    IF i < 1 \/ i > Len(s) THEN 0
    ELSE IF s[i] \in cls THEN 1 + RunLen(s, i + 1, cls) ELSE 0

\* s has the literal lit at position i, compared case-insensitively (i flag).
HasLiteralAt(s, i, lit) ==
    /\ i >= 1
    /\ i + Len(lit) - 1 <= Len(s)
    /\ \A j \in 1..Len(lit) : ToUpperChar(s[i + j - 1]) = ToUpperChar(lit[j])

\* String.prototype.startsWith (case-sensitive)
StartsWith(s, p) == Len(p) <= Len(s) /\ SubSeq(s, 1, Len(p)) = p

\* String.prototype.includes
Includes(s, p) == \E i \in 1..(Len(s) - Len(p) + 1) : SubSeq(s, i, i + Len(p) - 1) = p

----------------------------------------------------------------------------
(* Number conversion: String(parseInt(digits, 10)) *)

\* Decimal digits of a small natural number (an exponent).
NatToString(n) ==
    IF n < 10 THEN <<DigitSeq[n + 1]>>
    ELSE IF n < 100 THEN <<DigitSeq[(n \div 10) + 1], DigitSeq[(n % 10) + 1]>>
    ELSE <<DigitSeq[(n \div 100) + 1], DigitSeq[((n \div 10) % 10) + 1], DigitSeq[(n % 10) + 1]>>

StripLeadingZeros(d) ==
    LET z == RunLen(d, 1, {"0"})
    IN  IF z = Len(d) THEN <<"0">> ELSE SubSeq(d, z + 1, Len(d))

StripTrailingZeros(d) ==
    LET keep == {n \in 1..Len(d) : d[n] # "0"}
    IN  IF keep = {} THEN <<"0">> ELSE SubSeq(d, 1, Max(keep))

\* A decimal integer of at most 15 significant digits converts to a double
\* and back to the same digits (it is below 2^53 or a round-trip-safe
\* multiple of a power of ten).
ExactDigits == 15
\* Number::toString writes integers below 10^21 in positional notation and
\* everything from 10^21 on in exponent notation.
PositionalDigits == 21

\* String(parseInt(d, 10)) for a digit string d whose significant digits
\* (without leading and trailing zeros) are at most ExactDigits; the model
\* draws no other input.
ParseIntToString(d) ==
    LET sig == StripLeadingZeros(d)
        man == StripTrailingZeros(sig)
    IN  CASE Len(man) <= ExactDigits /\ Len(sig) <= PositionalDigits -> sig
          [] Len(man) <= ExactDigits /\ Len(sig) > PositionalDigits ->
                (IF Len(man) = 1 THEN man
                 ELSE <<man[1], ".">> \o SubSeq(man, 2, Len(man)))
                \o <<"e", "+">> \o NatToString(Len(sig) - 1)

----------------------------------------------------------------------------
(* Key Normalizer: lib/mapper.js *)

\* /\\(\d+&[A-F0-9]+)&/i tried at position i: the index of the last
\* character of the capture group, or 0 when there is no match at i.
ChipMatchEnd(s, i) ==
    LET d == RunLen(s, i + 1, Digits)
        h == RunLen(s, i + d + 2, HexClass)
    IN  IF /\ s[i] = Bs
           /\ d >= 1
           /\ i + d + 1 <= Len(s) /\ s[i + d + 1] = "&"
           /\ h >= 1
           /\ i + d + h + 2 <= Len(s) /\ s[i + d + h + 2] = "&"
        THEN i + d + h + 1
        ELSE 0

\* String.prototype.match without the g flag: the first position
\* where the pattern matches, 0 when it matches nowhere.
FirstChipMatch(s) ==
    LET at == {i \in 1..Len(s) : ChipMatchEnd(s, i) > 0}
    IN  IF at = {} THEN 0 ELSE Min(at)

\* extractChipPrefix returning the capture as written, not uppercased
extractChipPrefix_AsWritten(parent) ==
    IF ~Truthy(parent) THEN Null
    ELSE LET i == FirstChipMatch(parent)
         IN  IF i = 0 THEN Null
             ELSE SubSeq(parent, i + 1, ChipMatchEnd(parent, i))

extractChipPrefix(parent) ==
    IF ~Truthy(parent) THEN Null
    ELSE LET i == FirstChipMatch(parent)
         IN  IF i = 0 THEN Null
             ELSE ToUpperCase(SubSeq(parent, i + 1, ChipMatchEnd(parent, i)))

PortTag == <<"P", "o", "r", "t", "_", "#">>

\* /Port_#(\d+)/i tried at position i: the number of digits captured, 0
\* when there is no match at i.
PortMatchLen(s, i) ==
    IF HasLiteralAt(s, i, PortTag) THEN RunLen(s, i + Len(PortTag), Digits) ELSE 0

FirstPortMatch(s) ==
    LET at == {i \in 1..Len(s) : PortMatchLen(s, i) > 0}
    IN  IF at = {} THEN 0 ELSE Min(at)

extractPortIndex(location) ==
    IF ~Truthy(location) THEN Null
    ELSE LET i == FirstPortMatch(location)
         IN  IF i = 0 THEN Null
             ELSE ParseIntToString(SubSeq(location, i + Len(PortTag),
                                          i + Len(PortTag) + PortMatchLen(location, i) - 1))

normalizeLocation(location, parent) ==
    LET chipPrefix == extractChipPrefix(parent)
        portIndex == extractPortIndex(location)
    IN  IF ~Truthy(chipPrefix) \/ ~Truthy(portIndex) THEN Null
        ELSE chipPrefix \o <<"|">> \o portIndex

\* keyPattern.test(key) with keyPattern = /^\d+&[A-F0-9]+\|\d+$/i
KeyPatternTest(key) ==
    LET d == RunLen(key, 1, Digits)
        h == RunLen(key, d + 2, HexClass)
        e == RunLen(key, d + h + 3, Digits)
    IN  /\ d >= 1
        /\ d + 1 <= Len(key) /\ key[d + 1] = "&"
        /\ h >= 1
        /\ d + h + 2 <= Len(key) /\ key[d + h + 2] = "|"
        /\ e >= 1
        /\ d + h + 2 + e = Len(key)

----------------------------------------------------------------------------
(* Observations the Device Observation Source can report *)

S_USBVID == <<"U", "S", "B", Bs, "V", "I", "D", "_", "2", "1", "0", "9", "&", "P", "I", "D", "_">>
\* the two speed-class device nodes of one chip: USB\VID_2109&PID_0822 (3.0)
\* and USB\VID_2109&PID_2822 (2.0)
Node30 == S_USBVID \o <<"0", "8", "2", "2">>
Node20 == S_USBVID \o <<"2", "8", "2", "2">>
Nodes == {Node30, Node20}

\* chip-prefix segments as the OS writes them; ChipFrag is a leading
\* fragment of ChipMain, ChipLower is ChipMain in lower-case hex
ChipMain == <<"9", "&", "2", "3", "8", "4", "9", "8", "F", "1">>
ChipLower == <<"9", "&", "2", "3", "8", "4", "9", "8", "f", "1">>
ChipFrag == <<"9", "&", "2", "3", "8", "4", "9", "8", "F">>
ChipOther == <<"1", "2", "&", "1", "c", "0", "A">>
Chips == {ChipMain, ChipLower, ChipFrag, ChipOther}

Tails == {<<"&", "0", "&", "3">>, <<"&", "1", "&", "4">>}

\* A parent-chain identifier: node \ chip tail, or (wf = FALSE) a raw value
\* that has no such shape.
ChainParent(node, chip, tail) ==
    [wf |-> TRUE, node |-> node, chip |-> chip, tail |-> tail, raw |-> <<>>]
RawParent(raw) ==
    [wf |-> FALSE, node |-> <<>>, chip |-> <<>>, tail |-> <<>>, raw |-> raw]

ParentString(p) == IF p.wf THEN p.node \o <<Bs>> \o p.chip \o p.tail ELSE p.raw

RawParents ==
    { Null, <<>>,
      <<"U", "S", "B", Bs, "R", "O", "O", "T", "_", "H", "U", "B", "3", "0">>,
      \* a chip segment with nothing after it: the pattern needs the next '&'
      Node30 \o <<Bs>> \o ChipMain }

ParentInputs ==
    {ChainParent(n, c, t) : n \in Nodes, c \in Chips, t \in Tails}
        \cup {RawParent(r) : r \in RawParents}

\* Port numbers in canonical decimal form.  BigPort is 10^21, the first
\* integer Number::toString does not write positionally.
BigPort == <<"1", "0", "0", "0", "0", "0", "0", "0", "0", "0", "0",
             "0", "0", "0", "0", "0", "0", "0", "0", "0", "0", "0">>
PortNumbers == {<<"0">>, <<"2">>, <<"3">>, <<"4", "2">>, BigPort}

HubSuffix == <<".", "H", "u", "b", "_", "#", "0", "0", "0", "8">>
Suffixes == {<<>>, HubSuffix}

MaxLeadingZeros == 3

Zeros(n) == [i \in 1..n |-> "0"]

PortLocation(tag, lead, digits, suffix) ==
    [wf |-> TRUE, tag |-> tag, lead |-> lead, digits |-> digits, suffix |-> suffix, raw |-> <<>>]
RawLocation(raw) ==
    [wf |-> FALSE, tag |-> <<>>, lead |-> 0, digits |-> <<>>, suffix |-> <<>>, raw |-> raw]

LocationString(l) ==
    IF l.wf THEN l.tag \o Zeros(l.lead) \o l.digits \o l.suffix ELSE l.raw

PortTags == {PortTag, <<"p", "o", "r", "t", "_", "#">>}

RawLocations ==
    { Null, <<>>, <<"H", "u", "b", "_", "#", "0", "0", "0", "8">>,
      \* the tag with no digit after it
      PortTag \o <<".", "H", "u", "b">> }

LocationInputs ==
    {PortLocation(g, z, d, x) : g \in PortTags, z \in 0..MaxLeadingZeros,
                                d \in PortNumbers, x \in Suffixes}
        \cup {RawLocation(r) : r \in RawLocations}

----------------------------------------------------------------------------
(* JavaScript values that can stand where a port number is expected *)

JsInt(n) == [t |-> "int", n |-> n, s |-> <<>>]
\* a number that is not an integer, written s (1.5)
JsFrac(s) == [t |-> "frac", n |-> 0, s |-> s]
JsStr(s) == [t |-> "str", n |-> 0, s |-> s]
JsNull == [t |-> "null", n |-> 0, s |-> <<>>]
JsUndefined == [t |-> "undefined", n |-> 0, s |-> <<>>]

NumberIsInteger(v) == v.t = "int"

\* ToBoolean
JsTruthy(v) ==
    CASE v.t = "int" -> v.n # 0
      [] v.t = "frac" -> TRUE
      [] v.t = "str" -> v.s # <<>>
      [] OTHER -> FALSE

\* value < bound and value > bound on a number
JsLess(v, bound) == v.t = "int" /\ v.n < bound
JsGreater(v, bound) == v.t = "int" /\ v.n > bound

MinPort == 1
MaxPort == 7

----------------------------------------------------------------------------
(* PortMapper: lib/mapper.js.  this.mappings is a function from keys to    *)
(* values; each method is an operator on it.                               *)

MsgCannotNormalize == <<"C", "a", "n", "n", "o", "t", " ", "n", "o", "r",
    "m", "a", "l", "i", "z", "e", " ", "l", "o", "c", "a", "t", "i", "o",
    "n", " ", "-", " ", "i", "n", "v", "a", "l", "i", "d", " ", "l", "o",
    "c", "a", "t", "i", "o", "n", " ", "o", "r", " ", "p", "a", "r", "e",
    "n", "t", " ", "d", "a", "t", "a">>
MsgInvalidPort == <<"P", "h", "y", "s", "i", "c", "a", "l", " ", "p", "o",
    "r", "t", " ", "m", "u", "s", "t", " ", "b", "e", " ", "i", "n", "t",
    "e", "g", "e", "r", " ", "1", "-", "7">>

\* obj[key] = value
ObjectSet(m, key, value) ==
    [k \in DOMAIN m \cup {key} |-> IF k = key THEN value ELSE m[k]]

\* obj[key]: undefined when the object has no such property
ObjectGet(m, key) == IF key \in DOMAIN m THEN m[key] ELSE JsUndefined

\* a || null
OrNull(v) == IF JsTruthy(v) THEN v ELSE JsNull

Returned(key, val, bool, num) ==
    [threw |-> FALSE, msg |-> <<>>, key |-> key, val |-> val, bool |-> bool, num |-> num]
ReturnKey(key) == Returned(key, JsUndefined, FALSE, 0)
ReturnVal(val) == Returned(Null, val, FALSE, 0)
ReturnBool(b) == Returned(Null, JsUndefined, b, 0)
ReturnNum(n) == Returned(Null, JsUndefined, FALSE, n)
Throw(msg) ==
    [threw |-> TRUE, msg |-> msg, key |-> Null, val |-> JsUndefined, bool |-> FALSE, num |-> 0]

getPhysicalPort(m, location, parent) ==
    LET key == normalizeLocation(location, parent)
    IN  IF ~Truthy(key) THEN ReturnVal(JsNull)
        ELSE ReturnVal(OrNull(ObjectGet(m, key)))

\* addMapping without the check of the port argument
addMapping_Unchecked(m, location, parent, physicalPort) ==
    LET key == normalizeLocation(location, parent)
    IN  IF ~Truthy(key) THEN [out |-> Throw(MsgCannotNormalize), mappings |-> m]
        ELSE [out |-> ReturnKey(key), mappings |-> ObjectSet(m, key, physicalPort)]

\* addMapping with the range check admitting port 0
addMapping_FromZero(m, location, parent, physicalPort) ==
    LET key == normalizeLocation(location, parent)
    IN  IF ~Truthy(key) THEN [out |-> Throw(MsgCannotNormalize), mappings |-> m]
        ELSE IF \/ ~NumberIsInteger(physicalPort)
                \/ JsLess(physicalPort, 0)
                \/ JsGreater(physicalPort, MaxPort)
             THEN [out |-> Throw(MsgInvalidPort), mappings |-> m]
             ELSE [out |-> ReturnKey(key), mappings |-> ObjectSet(m, key, physicalPort)]

\* addMapping keeping the value of a key that is already mapped
addMapping_KeepFirst(m, location, parent, physicalPort) ==
    LET key == normalizeLocation(location, parent)
    IN  IF ~Truthy(key) THEN [out |-> Throw(MsgCannotNormalize), mappings |-> m]
        ELSE IF \/ ~NumberIsInteger(physicalPort)
                \/ JsLess(physicalPort, MinPort)
                \/ JsGreater(physicalPort, MaxPort)
             THEN [out |-> Throw(MsgInvalidPort), mappings |-> m]
             ELSE [out |-> ReturnKey(key),
                   mappings |-> IF key \in DOMAIN m THEN m ELSE ObjectSet(m, key, physicalPort)]

\* the result (the key, or the error thrown) and this.mappings afterwards
addMapping(m, location, parent, physicalPort) ==
    LET key == normalizeLocation(location, parent)
    IN  IF ~Truthy(key) THEN [out |-> Throw(MsgCannotNormalize), mappings |-> m]
        ELSE IF \/ ~NumberIsInteger(physicalPort)
                \/ JsLess(physicalPort, MinPort)
                \/ JsGreater(physicalPort, MaxPort)
             THEN [out |-> Throw(MsgInvalidPort), mappings |-> m]
             ELSE [out |-> ReturnKey(key), mappings |-> ObjectSet(m, key, physicalPort)]

hasMapping(m, location, parent) ==
    LET key == normalizeLocation(location, parent)
    IN  ReturnBool(IF Truthy(key) THEN key \in DOMAIN m ELSE FALSE)

getExistingPort(m, location, parent) ==
    LET key == normalizeLocation(location, parent)
    IN  ReturnVal(IF Truthy(key) THEN OrNull(ObjectGet(m, key)) ELSE JsNull)

\* isKnownChip matching the prefix without the '|' that ends it
isKnownChip_NoSeparator(m, location, parent) ==
    LET chipPrefix == extractChipPrefix(parent)
    IN  IF ~Truthy(chipPrefix) THEN ReturnBool(FALSE)
        ELSE ReturnBool(\E key \in DOMAIN m : StartsWith(key, chipPrefix))

isKnownChip(m, location, parent) ==
    LET chipPrefix == extractChipPrefix(parent)
    IN  IF ~Truthy(chipPrefix) THEN ReturnBool(FALSE)
        ELSE ReturnBool(\E key \in DOMAIN m : StartsWith(key, chipPrefix \o <<"|">>))

CalibratedCount == 7

\* isCalibrated asking for more than 7 entries
isCalibrated_MoreThan(m) == ReturnBool(Cardinality(DOMAIN m) > CalibratedCount)

isCalibrated(m) == ReturnBool(Cardinality(DOMAIN m) >= CalibratedCount)

getMappingCount(m) == ReturnNum(Cardinality(DOMAIN m))

----------------------------------------------------------------------------
(* Inputs of the PortMapper specification *)

Obs(location, parent) == [location |-> location, parent |-> parent]

PortLoc2 == PortTag \o <<"0", "0", "0", "2">> \o HubSuffix
PortLoc3 == PortTag \o <<"0", "0", "0", "3">> \o HubSuffix
Tail03 == <<"&", "0", "&", "3">>
Tail14 == <<"&", "1", "&", "4">>

\* the spec's example observation: key 9&238498F1|2
ObsMain2 == Obs(PortLoc2, Node30 \o <<Bs>> \o ChipMain \o Tail03)
\* the same port seen through the USB 2.0 node
ObsMain2Slow == Obs(PortTag \o <<"2">>, Node20 \o <<Bs>> \o ChipLower \o Tail14)
\* port 3 of the same chip
ObsMain3 == Obs(PortLoc3, Node30 \o <<Bs>> \o ChipMain \o Tail03)
\* port 2 of a chip whose prefix is a leading fragment of ChipMain
ObsFrag2 == Obs(PortLoc2, Node30 \o <<Bs>> \o ChipFrag \o Tail03)
\* port 2 of a third chip
ObsOther2 == Obs(PortLoc2, Node30 \o <<Bs>> \o ChipOther \o Tail03)
\* observations no key can be derived from
ObsNoLocation == Obs(Null, Node30 \o <<Bs>> \o ChipMain \o Tail03)
ObsNoChip == Obs(PortLoc2, <<"U", "S", "B", Bs, "R", "O", "O", "T", "_", "H", "U", "B", "3", "0">>)

\* observations addMapping is called with, and those the queries are called with
AddObs == {ObsMain2, ObsMain2Slow, ObsFrag2, ObsNoLocation, ObsNoChip}
QueryObs == AddObs \cup {ObsMain3, ObsOther2}

\* port arguments: the ends of the range, a port inside it, the integers just
\* outside it, a non-integer number and a string
PortArgs ==
    {JsInt(n) : n \in {MinPort - 1, MinPort, 4, MaxPort, MaxPort + 1}}
        \cup {JsFrac(<<"1", ".", "5">>), JsStr(<<"3">>)}

KeyOf(chip, n) == ToUpperCase(chip) \o <<"|">> \o NatToString(n)

\* mappings of a validated document the PortMapper is constructed from:
\* none, or six ports of the third chip
SixMappings == [k \in {KeyOf(ChipOther, n) : n \in 1..6} |->
                   JsInt(CHOOSE n \in 1..6 : KeyOf(ChipOther, n) = k)]
InitialMappings == {<<>>, SixMappings}

----------------------------------------------------------------------------
(* Calibration documents: lib/store.js                                     *)
(*                                                                         *)
(* A JavaScript value handed to validate or save is a record: kind is its  *)
(* type (an array is an object to typeof); an object's properties are the  *)
(* other fields, undefined where the object has no such property.  The     *)
(* value of mappings is a record too, its own properties a sequence of     *)
(* <<key, value>> pairs in the order Object.entries gives them.            *)

SCHEMA_VERSION == <<"1", ".", "0">>

MapValue(kind, truthy, entries) == [kind |-> kind, truthy |-> truthy, entries |-> entries]
MapObject(entries) == MapValue("object", TRUE, entries)
\* an array: its entries are keyed by the indices "0", "1", ...
MapArray(items) == MapValue("array", TRUE, [i \in 1..Len(items) |-> <<NatToString(i - 1), items[i]>>])
MapUndefined == MapValue("undefined", FALSE, <<>>)
MapNull == MapValue("null", FALSE, <<>>)
\* a non-empty string
MapString == MapValue("string", TRUE, <<>>)

\* typeof v === 'object'
TypeofObject(kind) == kind \in {"object", "array", "null"}

Document(version, createdAt, updatedAt, hubInfo, maps) ==
    [kind |-> "object", truthy |-> TRUE, version |-> version, createdAt |-> createdAt,
     updatedAt |-> updatedAt, hubInfo |-> hubInfo, mappings |-> maps]
\* a value with none of the properties: null, a string, a number, an array
Plain(kind, truthy) ==
    [kind |-> kind, truthy |-> truthy, version |-> JsUndefined, createdAt |-> JsUndefined,
     updatedAt |-> JsUndefined, hubInfo |-> "undefined", mappings |-> MapUndefined]
NullDocument == Plain("null", FALSE)

\* new Date().toISOString() at the time of the call, and an earlier time
TimeNow == <<"2", "0", "2", "6", "-", "0", "1", "-", "0", "2", "T", "0", "0",
    ":", "0", "0", ":", "0", "0", ".", "0", "0", "0", "Z">>
TimeBefore == <<"2", "0", "2", "6", "-", "0", "1", "-", "0", "1", "T", "0",
    "0", ":", "0", "0", ":", "0", "0", ".", "0", "0", "0", "Z">>

MsgNotObject == <<"I", "n", "v", "a", "l", "i", "d", " ", "c", "a", "l", "i",
    "b", "r", "a", "t", "i", "o", "n", " ", "d", "a", "t", "a", ":", " ",
    "n", "o", "t", " ", "a", "n", " ", "o", "b", "j", "e", "c", "t">>
MsgVersionHead == <<"I", "n", "v", "a", "l", "i", "d", " ", "s", "c", "h",
    "e", "m", "a", " ", "v", "e", "r", "s", "i", "o", "n", ":", " ", "e",
    "x", "p", "e", "c", "t", "e", "d", " ">>
MsgVersionGot == <<",", " ", "g", "o", "t", " ">>
MsgMissingMappings == <<"I", "n", "v", "a", "l", "i", "d", " ", "c", "a",
    "l", "i", "b", "r", "a", "t", "i", "o", "n", " ", "d", "a", "t", "a",
    ":", " ", "m", "i", "s", "s", "i", "n", "g", " ", "m", "a", "p", "p",
    "i", "n", "g", "s", " ", "o", "b", "j", "e", "c", "t">>
MsgKeyFormat == <<"I", "n", "v", "a", "l", "i", "d", " ", "m", "a", "p", "p",
    "i", "n", "g", " ", "k", "e", "y", " ", "f", "o", "r", "m", "a", "t",
    ":", " ">>
MsgPortValueHead == <<"I", "n", "v", "a", "l", "i", "d", " ", "p", "o", "r",
    "t", " ", "v", "a", "l", "u", "e", " ", "f", "o", "r", " ">>
MsgPortValueGot == <<":", " ", "m", "u", "s", "t", " ", "b", "e", " ", "i",
    "n", "t", "e", "g", "e", "r", " ", "1", "-", "7", ",", " ", "g", "o",
    "t", " ">>
MsgCorruptedHead == <<"C", "o", "r", "r", "u", "p", "t", "e", "d", " ", "c",
    "a", "l", "i", "b", "r", "a", "t", "i", "o", "n", " ", "f", "i", "l",
    "e", ":", " ", "i", "n", "v", "a", "l", "i", "d", " ", "J", "S", "O",
    "N", " ", "-", " ">>
MsgCannotWrite == <<"C", "a", "n", "n", "o", "t", " ", "w", "r", "i", "t",
    "e", " ", "c", "a", "l", "i", "b", "r", "a", "t", "i", "o", "n", " ",
    "f", "i", "l", "e", " ", "t", "o", " ", "c", "u", "r", "r", "e", "n",
    "t", " ", "d", "i", "r", "e", "c", "t", "o", "r", "y">>
MsgCannotDelete == <<"C", "a", "n", "n", "o", "t", " ", "d", "e", "l", "e",
    "t", "e", " ", "c", "a", "l", "i", "b", "r", "a", "t", "i", "o", "n",
    " ", "f", "i", "l", "e">>
S_undefined == <<"u", "n", "d", "e", "f", "i", "n", "e", "d">>
S_null == <<"n", "u", "l", "l">>

\* a value inside a template literal: `${v}`
TemplateString(v) ==
    CASE v.t = "int" -> NatToString(v.n)
      [] v.t = "frac" -> v.s
      [] v.t = "str" -> v.s
      [] v.t = "null" -> S_null
      [] OTHER -> S_undefined

\* value !== SCHEMA_VERSION
NotSchemaVersion(v) == v # JsStr(SCHEMA_VERSION)

BadKey(e) == ~KeyPatternTest(e[1])
BadValue(e) == ~NumberIsInteger(e[2]) \/ JsLess(e[2], MinPort) \/ JsGreater(e[2], MaxPort)

Valid == [ok |-> TRUE, msg |-> <<>>]
Invalid(msg) == [ok |-> FALSE, msg |-> msg]

\* validate(data): returns true (ok) or throws an Error with the message msg
validate(data) ==
    IF ~data.truthy \/ ~TypeofObject(data.kind) THEN Invalid(MsgNotObject)
    ELSE IF NotSchemaVersion(data.version)
    THEN Invalid(MsgVersionHead \o SCHEMA_VERSION \o MsgVersionGot \o TemplateString(data.version))
    ELSE IF ~data.mappings.truthy \/ ~TypeofObject(data.mappings.kind)
    THEN Invalid(MsgMissingMappings)
    ELSE LET entries == data.mappings.entries
             bad == {i \in 1..Len(entries) : BadKey(entries[i]) \/ BadValue(entries[i])}
         IN  IF bad = {} THEN Valid
             ELSE LET e == entries[Min(bad)]
                  IN  IF BadKey(e) THEN Invalid(MsgKeyFormat \o e[1])
                      ELSE Invalid(MsgPortValueHead \o e[1] \o MsgPortValueGot \o TemplateString(e[2]))

(* The file calibration.json: Absent, or its text.  A text is what          *)
(* JSON.parse makes of it: a SyntaxError with a message, or a value.       *)

Absent == [exists |-> FALSE, syntaxError |-> FALSE, detail |-> <<>>, value |-> NullDocument]
Unparseable(detail) ==
    [exists |-> TRUE, syntaxError |-> TRUE, detail |-> detail, value |-> NullDocument]
JsonText(value) == [exists |-> TRUE, syntaxError |-> FALSE, detail |-> <<>>, value |-> value]

\* JSON.stringify of the value of mappings, read back: undefined has no JSON
\* form, so an object loses the properties whose value is undefined and an
\* array has null in their place
JsonMappings(maps) ==
    IF maps.kind = "array"
    THEN [maps EXCEPT !.entries =
             [i \in 1..Len(maps.entries) |->
                 IF maps.entries[i][2] = JsUndefined THEN <<maps.entries[i][1], JsNull>>
                 ELSE maps.entries[i]]]
    ELSE [maps EXCEPT !.entries = SelectSeq(maps.entries, LAMBDA e : e[2] # JsUndefined)]

\* JSON.stringify(toSave, null, 2): the text that parses to the document
JSONStringify(doc) ==
    JsonText([doc EXCEPT !.mappings = JsonMappings(doc.mappings)])

\* JSON.parse(content): the value, or a SyntaxError
JSONParse(text) ==
    IF text.syntaxError THEN [threw |-> TRUE, msg |-> text.detail, value |-> NullDocument]
    ELSE [threw |-> FALSE, msg |-> <<>>, value |-> text.value]

\* what a store function returned (a document or null, or a boolean), or the
\* Error it threw: its message and, for a system error, its code
StoreReturn(doc) == [threw |-> FALSE, msg |-> <<>>, code |-> "", doc |-> doc, bool |-> FALSE]
StoreReturnBool(b) ==
    [threw |-> FALSE, msg |-> <<>>, code |-> "", doc |-> NullDocument, bool |-> b]
StoreThrow(msg, code) ==
    [threw |-> TRUE, msg |-> msg, code |-> code, doc |-> NullDocument, bool |-> FALSE]

exists(f) == f.exists

\* load(): the document, null (NullDocument) or the error thrown
load(f) ==
    IF ~f.exists THEN StoreReturn(NullDocument)
    ELSE LET parsed == JSONParse(f)
         IN  IF parsed.threw THEN StoreThrow(MsgCorruptedHead \o parsed.msg, "")
             ELSE LET v == validate(parsed.value)
                  IN  IF v.ok THEN StoreReturn(parsed.value) ELSE StoreThrow(v.msg, "")

\* a || b on property values
JsOr(a, b) == IF JsTruthy(a) THEN a ELSE b

\* the document save() writes for data
ToSave(data) ==
    Document(JsStr(SCHEMA_VERSION),
             JsOr(data.createdAt, JsStr(TimeNow)),
             JsStr(TimeNow),
             IF data.hubInfo = "undefined" THEN "empty" ELSE data.hubInfo,
             IF data.mappings.truthy THEN data.mappings ELSE MapObject(<<>>))

\* the outcome of fs.writeFileSync / fs.unlinkSync: done, or an error code
IoOutcomes == {"ok", "EACCES", "EPERM", "EIO"}
MsgEIO == <<"E", "I", "O", ":", " ", "i", "/", "o", " ", "e", "r", "r", "o",
    "r">>
MsgEACCES == <<"E", "A", "C", "C", "E", "S", ":", " ", "p", "e", "r", "m",
    "i", "s", "s", "i", "o", "n", " ", "d", "e", "n", "i", "e", "d">>
MsgEPERM == <<"E", "P", "E", "R", "M", ":", " ", "o", "p", "e", "r", "a",
    "t", "i", "o", "n", " ", "n", "o", "t", " ", "p", "e", "r", "m", "i",
    "t", "t", "e", "d">>
SystemMessage(code) ==
    CASE code = "EACCES" -> MsgEACCES
      [] code = "EPERM" -> MsgEPERM
      [] OTHER -> MsgEIO

\* save writing the version the caller's document carries
save_KeepVersion(f, data, io) ==
    LET toSave == [ToSave(data) EXCEPT !.version = JsOr(data.version, JsStr(SCHEMA_VERSION))]
        v == validate(toSave)
    IN  IF ~v.ok THEN [out |-> StoreThrow(v.msg, ""), file |-> f]
        ELSE IF io = "ok" THEN [out |-> StoreReturn(NullDocument), file |-> JSONStringify(toSave)]
        ELSE IF io \in {"EACCES", "EPERM"} THEN [out |-> StoreThrow(MsgCannotWrite, ""), file |-> f]
        ELSE [out |-> StoreThrow(SystemMessage(io), io), file |-> f]

\* save(data) when the write ends as io: what it returns or throws, and the file
save(f, data, io) ==
    LET toSave == ToSave(data)
        v == validate(toSave)
    IN  IF ~v.ok THEN [out |-> StoreThrow(v.msg, ""), file |-> f]
        ELSE IF io = "ok" THEN [out |-> StoreReturn(NullDocument), file |-> JSONStringify(toSave)]
        ELSE IF io \in {"EACCES", "EPERM"} THEN [out |-> StoreThrow(MsgCannotWrite, ""), file |-> f]
        ELSE [out |-> StoreThrow(SystemMessage(io), io), file |-> f]

\* clear() when the unlink ends as io
clear(f, io) ==
    IF ~f.exists THEN [out |-> StoreReturn(NullDocument), file |-> f]
    ELSE IF io = "ok" THEN [out |-> StoreReturn(NullDocument), file |-> Absent]
    ELSE IF io \in {"EACCES", "EPERM"} THEN [out |-> StoreThrow(MsgCannotDelete, ""), file |-> f]
    ELSE [out |-> StoreThrow(SystemMessage(io), io), file |-> f]

createEmpty ==
    Document(JsStr(SCHEMA_VERSION), JsStr(TimeNow), JsStr(TimeNow), "nulls", MapObject(<<>>))

(* Documents and files the store is exercised on *)

S_2_0 == <<"2", ".", "0">>
S_Corrupted == <<"C", "o", "r", "r", "u", "p", "t", "e", "d">>
S_abc3 == <<"a", "b", "c", "|", "3">>
S_1_5 == <<"1", ".", "5">>
S_3 == <<"3">>
SyntaxDetail == <<"U", "n", "e", "x", "p", "e", "c", "t", "e", "d", " ", "e",
    "n", "d", " ", "o", "f", " ", "J", "S", "O", "N", " ", "i", "n", "p",
    "u", "t">>

KeyMain2 == KeyOf(ChipMain, 2)
KeyMain3 == KeyOf(ChipMain, 3)
\* a key as a hand-edited file may hold it: the chip prefix in lower case
KeyLower4 == ChipLower \o <<"|", "4">>
\* the key normalizeLocation builds for port index BigPort
KeyBig == normalizeLocation(PortTag \o BigPort, Node30 \o <<Bs>> \o ChipMain \o Tail03)

Entry(key, value) == <<key, value>>
TwoEntries == <<Entry(KeyMain2, JsInt(1)), Entry(KeyLower4, JsInt(7))>>
\* two keys with the same port number, which validate accepts
SamePort == <<Entry(KeyMain2, JsInt(1)), Entry(KeyMain3, JsInt(1))>>

\* mappings that pass validation
GoodMappings == {MapObject(<<>>), MapObject(<<Entry(KeyMain3, JsInt(4))>>), MapObject(TwoEntries)}
\* mappings with an entry that fails it: the values 0, 8, 1.5 and "3", the
\* keys abc|3 and the exponent form, and an array of one port number
BadEntryMappings ==
    {MapObject(<<Entry(KeyMain2, JsInt(1)), Entry(KeyMain3, v)>>) :
        v \in {JsInt(0), JsInt(8), JsFrac(S_1_5), JsStr(S_3), JsNull}}
    \cup {MapObject(<<Entry(S_abc3, JsInt(3))>>),
          MapObject(<<Entry(KeyBig, JsInt(3))>>),
          MapObject(<<Entry(S_abc3, JsInt(0)), Entry(KeyMain2, JsInt(9))>>),
          MapObject(<<Entry(KeyMain2, JsInt(9)), Entry(S_abc3, JsInt(0))>>),
          MapArray(<<JsInt(3)>>)}
\* values of mappings that are not an object of entries
NoMappings == {MapUndefined, MapNull, MapString, MapArray(<<>>)}

Versions == {JsStr(SCHEMA_VERSION), JsStr(S_2_0), JsStr(S_Corrupted), JsInt(1), JsUndefined}

\* an object with a version and mappings, as a caller or a file may hold it
DocumentOf(version, maps) == Document(version, JsStr(TimeBefore), JsStr(TimeBefore), "nulls", maps)
\* an object that has only these two properties
BareDocument(version, maps) == Document(version, JsUndefined, JsUndefined, "undefined", maps)

ValidateInputs ==
    {DocumentOf(JsStr(SCHEMA_VERSION), m) : m \in GoodMappings \cup BadEntryMappings \cup NoMappings}
    \cup {DocumentOf(v, MapObject(TwoEntries)) : v \in Versions}
    \cup {DocumentOf(JsStr(S_2_0), MapUndefined), createEmpty}
    \cup {NullDocument, Plain("undefined", FALSE), Plain("string", TRUE), Plain("number", TRUE),
          Plain("emptystring", FALSE), Plain("array", TRUE)}

SaveInputs ==
    {DocumentOf(JsStr(SCHEMA_VERSION), m) : m \in GoodMappings \cup NoMappings}
    \cup {BareDocument(v, MapObject(TwoEntries)) : v \in {JsStr(S_2_0), JsUndefined}}
    \cup {DocumentOf(JsStr(SCHEMA_VERSION), m) :
            m \in {MapObject(<<Entry(KeyMain2, JsInt(8))>>), MapObject(<<Entry(S_abc3, JsInt(3))>>)}}
    \cup {createEmpty}

\* a text cut short, and texts of values JSON can hold
UnparseableFile == Unparseable(SyntaxDetail)
ParseableValues ==
    {DocumentOf(JsStr(SCHEMA_VERSION), m) :
        m \in {MapObject(<<>>), MapObject(TwoEntries), MapObject(SamePort), MapArray(<<>>),
               MapUndefined,
               MapObject(<<Entry(KeyMain2, JsInt(0))>>), MapObject(<<Entry(S_abc3, JsInt(3))>>),
               MapObject(<<Entry(S_Corrupted, JsInt(3))>>)}}
    \cup {DocumentOf(v, MapObject(TwoEntries)) : v \in {JsStr(S_2_0), JsStr(S_Corrupted)}}
    \cup {NullDocument, Plain("string", TRUE)}
InitialFiles == {Absent, UnparseableFile} \cup {JsonText(v) : v \in ParseableValues}

----------------------------------------------------------------------------
(* Device Observation Source: the scanner module                           *)

\* one exec of powershell.exe: its standard output, or the error it ends
\* with (code ENOENT, killed by the timeout, or any other failure).  Output
\* that is not blank parses or not; items are the items of the array it
\* parses to, or the one object
Stdout(blank, parseable, isArray, items) ==
    [error |-> FALSE, code |-> "", killed |-> FALSE, blank |-> blank,
     parseable |-> parseable, isArray |-> isArray, items |-> items]
ExecError(code, killed) ==
    [error |-> TRUE, code |-> code, killed |-> killed, blank |-> FALSE,
     parseable |-> FALSE, isArray |-> FALSE, items |-> <<>>]

MsgNoPowerShell == <<"P", "o", "w", "e", "r", "S", "h", "e", "l", "l", " ",
    "n", "o", "t", " ", "f", "o", "u", "n", "d", ".", " ", "R", "e", "q",
    "u", "i", "r", "e", "s", " ", "W", "i", "n", "d", "o", "w", "s", " ",
    "P", "o", "w", "e", "r", "S", "h", "e", "l", "l", " ", "5", ".", "1">>
MsgTimedOut == <<"P", "o", "w", "e", "r", "S", "h", "e", "l", "l", " ", "c",
    "o", "m", "m", "a", "n", "d", " ", "t", "i", "m", "e", "d", " ", "o",
    "u", "t">>
MsgCommandFailed == <<"C", "o", "m", "m", "a", "n", "d", " ", "f", "a", "i",
    "l", "e", "d">>

ScanReturn(items) == [threw |-> FALSE, msg |-> <<>>, items |-> items]
ScanThrow(msg) == [threw |-> TRUE, msg |-> msg, items |-> <<>>]

\* runScript without the retry: a timeout is thrown at once
RunOnce_NoRetry(e, retryOnce) ==
    IF ~e.error
    THEN [retry |-> FALSE,
          out |-> IF e.blank \/ ~e.parseable THEN ScanReturn(<<>>)
                  ELSE IF e.isArray THEN ScanReturn(e.items)
                  ELSE ScanReturn(<<e.items[1]>>)]
    ELSE IF e.code = "ENOENT" THEN [retry |-> FALSE, out |-> ScanThrow(MsgNoPowerShell)]
    ELSE IF e.killed THEN [retry |-> FALSE, out |-> ScanThrow(MsgTimedOut)]
    ELSE [retry |-> FALSE, out |-> ScanThrow(MsgCommandFailed)]

\* what one exec makes runScript return or throw; retry when it asks for the
\* script to be run once more
RunOnce(e, retryOnce) ==
    IF ~e.error
    THEN [retry |-> FALSE,
          out |-> IF e.blank \/ (e.parseable /\ e.isArray /\ e.items = <<>>) THEN ScanReturn(<<>>)
                  ELSE IF ~e.parseable THEN ScanReturn(<<>>)
                  ELSE IF e.isArray THEN ScanReturn(e.items)
                  ELSE ScanReturn(<<e.items[1]>>)]
    ELSE IF e.code = "ENOENT" THEN [retry |-> FALSE, out |-> ScanThrow(MsgNoPowerShell)]
    ELSE IF e.killed /\ retryOnce THEN [retry |-> TRUE, out |-> ScanReturn(<<>>)]
    ELSE IF e.killed THEN [retry |-> FALSE, out |-> ScanThrow(MsgTimedOut)]
    ELSE [retry |-> FALSE, out |-> ScanThrow(MsgCommandFailed)]

\* runScript(scriptName, retryOnce): run holds the outcomes of the execs in
\* the order they are made; execs counts the calls of execAsync
RECURSIVE runScriptFrom(_, _)
runScriptFrom(run, retryOnce) ==
    LET first == RunOnce(Head(run), retryOnce)
    IN  IF first.retry
        THEN LET again == runScriptFrom(Tail(run), FALSE)
             IN  [out |-> again.out, execs |-> 1 + again.execs]
        ELSE [out |-> first.out, execs |-> 1]

runScript(run) == runScriptFrom(run, TRUE).out

getDrives(run) == runScript(run)

\* a drive as get-drives.ps1 reports it
Drive(serial, location, parent) ==
    [name |-> <<"U", "S", "B">>, serial |-> serial, location |-> location, parent |-> parent]

DriveA == Drive(<<"S", "1">>, ObsMain2.location, ObsMain2.parent)
\* the same drive moved to port 3
DriveA3 == Drive(<<"S", "1">>, ObsMain3.location, ObsMain3.parent)
\* another drive at port 3
DriveB == Drive(<<"S", "2">>, ObsMain3.location, ObsMain3.parent)
\* a drive whose location and hub could not be read
DriveN == Drive(<<"S", "3">>, Null, Null)

\* ConvertTo-Json writes a single result as an object, several as an array
JsonOf(drives) == Stdout(FALSE, TRUE, Len(drives) # 1, drives)
Snapshots == {<<>>, <<DriveA>>, <<DriveA3>>, <<DriveA, DriveN>>, <<DriveB, DriveA>>}
ExecFailures == {ExecError("ENOENT", FALSE), ExecError("", TRUE), ExecError("", FALSE)}
ExecOutcomes ==
    {JsonOf(d) : d \in Snapshots}
    \cup {Stdout(TRUE, FALSE, FALSE, <<>>), Stdout(FALSE, FALSE, FALSE, <<>>)}
    \cup ExecFailures
\* the first exec, and the second where the first was killed
ScanRuns ==
    {<<e, e>> : e \in {x \in ExecOutcomes : ~x.killed}}
    \cup {<<ExecError("", TRUE), e>> : e \in ExecOutcomes}

\* the same with a third exec, should runScript come to make one
ScanStreams == {Append(run, e) : run \in ScanRuns, e \in {ExecError("", TRUE), JsonOf(<<DriveA>>)}}

----------------------------------------------------------------------------
(* Commands: index.js                                                      *)

LowerOf == [c \in {UpperSeq[i] : i \in 1..26} |-> LowerSeq[CHOOSE i \in 1..26 : UpperSeq[i] = c]]
\* String.prototype.toLowerCase
ToLowerCase(s) == [i \in 1..Len(s) |-> IF s[i] \in DOMAIN LowerOf THEN LowerOf[s[i]] ELSE s[i]]

\* what the operator types at a prompt
Answers == {<<>>, <<"y">>, <<"n">>, <<"N">>, <<"n", "o">>}
IsNo(answer) == ToLowerCase(answer) = <<"n">>

\* new PortMapper(calibrationData): this.mappings
PortMapper(calibrationData) ==
    IF calibrationData.truthy /\ calibrationData.mappings.truthy
    THEN LET entries == calibrationData.mappings.entries
         IN  [k \in {entries[i][1] : i \in 1..Len(entries)} |->
                 entries[Max({i \in 1..Len(entries) : entries[i][1] = k})][2]]
    ELSE <<>>

\* err.message.includes('Corrupted')
IsCorruptedMessage(msg) == Includes(msg, S_Corrupted)

\* a line written for the operator: which one, and the error message in it
Report(tag, msg) == [tag |-> tag, msg |-> msg]

LastPort == 7
MaxAttempts == 3

(* status: the table *)

S_USB_Drive == <<"U", "S", "B", " ", "D", "r", "i", "v", "e">>

\* a row of the table: { port, device: null, serial: '' }
EmptyRow == [device |-> Null, serial |-> <<>>]
\* the rows of ports 1..7, the drives listed as unknown devices, and
\* hasCalibrationMismatch
EmptyTable == [ports |-> [p \in 1..LastPort |-> EmptyRow], unmapped |-> <<>>, mismatch |-> FALSE]

\* a || b on strings
StrOr(a, b) == IF Truthy(a) THEN a ELSE b

\* the loop body raising the mismatch whatever the mapping holds
ClassifyDrive_AnyCount(mapper, m, table, drive) ==
    IF mapper = "null" THEN [table EXCEPT !.unmapped = Append(@, drive)]
    ELSE LET port == getPhysicalPort(m, drive.location, drive.parent).val
         IN  IF JsTruthy(port)
             THEN [table EXCEPT !.ports[port.n] =
                      [device |-> StrOr(drive.name, S_USB_Drive), serial |-> StrOr(drive.serial, <<>>)]]
             ELSE IF ~isKnownChip(m, drive.location, drive.parent).bool
             THEN [table EXCEPT !.mismatch = TRUE, !.unmapped = Append(@, drive)]
             ELSE [table EXCEPT !.unmapped = Append(@, drive)]

\* the body of for (const drive of drives)
ClassifyDrive(mapper, m, table, drive) ==
    IF mapper = "null" THEN [table EXCEPT !.unmapped = Append(@, drive)]
    ELSE LET port == getPhysicalPort(m, drive.location, drive.parent).val
         IN  IF JsTruthy(port)
             THEN [table EXCEPT !.ports[port.n] =
                      [device |-> StrOr(drive.name, S_USB_Drive), serial |-> StrOr(drive.serial, <<>>)]]
             ELSE IF getMappingCount(m).num > 0 /\ ~isKnownChip(m, drive.location, drive.parent).bool
             THEN [table EXCEPT !.mismatch = TRUE, !.unmapped = Append(@, drive)]
             ELSE [table EXCEPT !.unmapped = Append(@, drive)]

RECURSIVE StatusTable(_, _, _, _)
StatusTable(mapper, m, table, drives) ==
    IF drives = <<>> THEN table
    ELSE StatusTable(mapper, m, ClassifyDrive(mapper, m, table, Head(drives)), Tail(drives))

\* what the scan of cmdStatus gave: whether it returned, whether the output
\* of the script was text that does not parse, and the drives
\* the last exec that runScript made
LastExec(run) == run[runScriptFrom(run, TRUE).execs]
Unreadable(run) ==
    LET e == LastExec(run) IN ~e.error /\ ~e.blank /\ ~e.parseable
Scan(run) ==
    [done |-> TRUE, run |-> run, execs |-> runScriptFrom(run, TRUE).execs,
     out |-> getDrives(run), unreadable |-> Unreadable(run)]
NoScan == [done |-> FALSE, run |-> <<>>, execs |-> 0, out |-> ScanReturn(<<>>), unreadable |-> FALSE]

\* the process: the command, whether it has exited and with what status,
\* whether the readline interface is open, whether mapper is null or a
\* PortMapper, the file as load() read it and what load() did, whether the
\* delete-and-recalibrate path was taken, and what was reported
Process(cmd) ==
    [cmd |-> cmd, exited |-> FALSE, status |-> 0, rl |-> FALSE, mapper |-> "null",
     loaded |-> FALSE, loadedFile |-> Absent, loadOut |-> StoreReturn(NullDocument),
     recovery |-> FALSE, reported |-> <<>>, scan |-> NoScan, table |-> EmptyTable,
     signal |-> FALSE]

Loaded(c, f, out) == [c EXCEPT !.loaded = TRUE, !.loadedFile = f, !.loadOut = out]
Reporting(c, tag, msg) == [c EXCEPT !.reported = Append(@, Report(tag, msg))]
\* closeReadline(), then process.exit(status) or the end of main
Exiting(c, status) == [c EXCEPT !.exited = TRUE, !.status = status, !.rl = FALSE]
\* the catch of main: error(`Error: ${err.message}`), closeReadline(), exit(1)
MainCatch(c, msg) == Exiting(Reporting(c, "error", msg), 1)
\* ask(question): createReadline()
Asking(c) == [c EXCEPT !.rl = TRUE]
\* SIGINT is delivered to the process
Signalled(c) == [c EXCEPT !.signal = TRUE]

(* calibrate: the wizard *)

\* what the last segment of cmdCalibrate did: whether it called getDrives
\* and whether that call threw; whether it called addMapping, with which drive and port and whether the
\* call threw; whether it ended a step, with the drives of the last scan of
\* that step, what the step said to the operator and its addMapping calls;
\* and the answer it began with, if it began with one
NoEvent ==
    [scan |-> FALSE, scanThrew |-> FALSE, add |-> FALSE, addDrive |-> <<>>, addPort |-> JsNull, addThrew |-> FALSE,
     ended |-> FALSE, drives |-> <<>>, said |-> {}, adds |-> 0, answer |-> <<>>]
Answered(k, answer) == [k EXCEPT !.wizard.event.answer = answer]

\* the calibration wizard: the port of the current step (0 before the first,
\* 8 after the last), the scans that came back with no or several drives,
\* the drives of the last scan, calibration.mappings; and of the current
\* step the scans made, the addMapping calls made and what was said to the
\* operator; and the calls of store.save
Wizard(port, calMappings, saves) ==
    [port |-> port, attempts |-> 0, drives |-> <<>>, calMappings |-> calMappings,
     scans |-> 0, adds |-> 0, said |-> {}, saves |-> saves, event |-> NoEvent]
NoWizard == Wizard(0, <<>>, 0)

\* getAllMappings(): a copy of this.mappings
getAllMappings(m) == [k \in DOMAIN m |-> m[k]]

RECURSIVE EntriesOf(_)
\* the own properties of an object of mappings, as Object.entries gives them
\* (in one fixed order: the order of insertion is not kept)
EntriesOf(m) ==
    IF DOMAIN m = {} THEN <<>>
    ELSE LET k == CHOOSE x \in DOMAIN m : TRUE
         IN  <<<<k, m[k]>>>> \o EntriesOf([x \in DOMAIN m \ {k} |-> m[x]])

\* the object calibration, whose mappings are replaced after each addMapping
CalibrationDocument(w) == [createEmpty EXCEPT !.mappings = MapObject(EntriesOf(w.calMappings))]

\* what a segment of cmdCalibrate works on and leaves behind
Config ==
    [pc |-> pc, cli |-> cli, wizard |-> [wizard EXCEPT !.event = NoEvent],
     mappings |-> mappings, file |-> file]
Said(k, tag) == [k EXCEPT !.wizard.said = @ \cup {tag}]

\* after the loop: store.save(calibration), the summary, closeReadline()
SaveCalibration(k, io) ==
    LET r == save(k.file, CalibrationDocument(k.wizard), io)
        w == [k.wizard EXCEPT !.saves = @ + 1]
    IN  IF r.out.threw
        THEN [k EXCEPT !.wizard = w, !.pc = "exit",
                       !.cli = Exiting(Reporting(@, "save_failed", r.out.msg), 1)]
        ELSE [k EXCEPT !.wizard = w, !.pc = "exit", !.file = r.file,
                       !.cli = Exiting(Reporting(Reporting(@, "saved", <<>>),
                                                 IF getMappingCount(k.mappings).num < LastPort
                                                 THEN "incomplete" ELSE "complete", <<>>), 0)]

\* a new step: 'Insert USB drive into PORT port'
StartStep(w, port) ==
    [Wizard(port, w.calMappings, w.saves) EXCEPT !.said = {"insert"}, !.event = w.event]

\* the step ends: what it saw and said is kept for the record
Ended(k) ==
    [k EXCEPT !.wizard.event.ended = TRUE, !.wizard.event.drives = k.wizard.drives,
              !.wizard.event.said = k.wizard.said, !.wizard.event.adds = k.wizard.adds]

\* continue, or the end of the loop body: port++, and the loop test
NextPort(k, io) ==
    IF k.wizard.port + 1 <= LastPort
    THEN [Ended(k) EXCEPT !.wizard = StartStep(@, k.wizard.port + 1), !.pc = "calibrate_insert"]
    ELSE SaveCalibration([Ended(k) EXCEPT !.wizard.port = @ + 1], io)

\* the call of addMapping has returned or thrown r
Called(k, drive, r) ==
    [k EXCEPT !.wizard.adds = @ + 1, !.mappings = r.mappings,
              !.wizard.event.add = TRUE, !.wizard.event.addDrive = <<drive>>,
              !.wizard.event.addPort = JsInt(k.wizard.port),
              !.wizard.event.addThrew = r.out.threw]
\* calibration.mappings = mapper.getAllMappings(), and the success message
Mapped(k, r) == Said([k EXCEPT !.wizard.calMappings = getAllMappings(r.mappings)], "mapped")

\* a wizard that ends when addMapping throws
Added_FailureEnds(k, drive, r, io) ==
    IF r.out.threw
    THEN [Said(Called(k, drive, r), "add_failed") EXCEPT
              !.pc = "exit", !.cli = Exiting(Reporting(@, "error", r.out.msg), 1)]
    ELSE IF k.wizard.port < LastPort
    THEN [Said(Mapped(Called(k, drive, r), r), "remove") EXCEPT !.pc = "calibrate_ask_remove"]
    ELSE NextPort(Mapped(Called(k, drive, r), r), io)
AddAndGoOn_FailureEnds(k, drive, io) ==
    Added_FailureEnds(k, drive,
        addMapping(k.mappings, drive.location, drive.parent, JsInt(k.wizard.port)), io)

\* what follows the call: the catch and its continue, or the prompt to
\* remove the drive
Added(k, drive, r, io) ==
    IF r.out.threw THEN NextPort(Said(Called(k, drive, r), "add_failed"), io)
    ELSE IF k.wizard.port < LastPort
    THEN [Said(Mapped(Called(k, drive, r), r), "remove") EXCEPT !.pc = "calibrate_ask_remove"]
    ELSE NextPort(Mapped(Called(k, drive, r), r), io)

\* a wizard that numbers the port it maps one too low after the first
AddAndGoOn_PreviousPort(k, drive, io) ==
    Added(k, drive, addMapping(k.mappings, drive.location, drive.parent,
                               JsInt(Max({MinPort, k.wizard.port - 1}))), io)

\* the try of addMapping, and the prompt to remove the drive
AddAndGoOn(k, drive, io) ==
    Added(k, drive, addMapping(k.mappings, drive.location, drive.parent, JsInt(k.wizard.port)), io)

\* a single drive was detected: the check for a duplicate mapping
SingleDrive(k, drive, io) ==
    IF getExistingPort(k.mappings, drive.location, drive.parent).val # JsNull
    THEN [Said(Said(k, "already_mapped"), "remap") EXCEPT !.pc = "calibrate_ask_remap"]
    ELSE AddAndGoOn(k, drive, io)

\* a loop that counts only the scans that saw several drives
ScanAgain_ZeroFree(k, io) ==
    LET k1 == [k EXCEPT !.wizard.attempts = @ + (IF Len(k.wizard.drives) = 0 THEN 0 ELSE 1)]
    IN  IF k1.wizard.attempts < MaxAttempts THEN [k1 EXCEPT !.pc = "calibrate_scan"]
        ELSE IF Len(k1.wizard.drives) = 0 THEN NextPort(k1, io)
        ELSE NextPort(Said(k1, "not_isolated"), io)

\* attempts++; continue: the test of the while loop, and what follows it
\* when the attempts are used up
ScanAgain(k, io) ==
    LET k1 == [k EXCEPT !.wizard.attempts = @ + 1]
    IN  IF k1.wizard.attempts < MaxAttempts THEN [k1 EXCEPT !.pc = "calibrate_scan"]
        ELSE IF Len(k1.wizard.drives) = 0 THEN NextPort(k1, io)
        ELSE NextPort(Said(k1, "not_isolated"), io)

(* monitor: the snapshot Maps, as sequences of <<key, drive>> in insertion *)
(* order                                                                   *)

MapHas(m, key) == \E i \in 1..Len(m) : m[i][1] = key
\* Map.prototype.set: a key already present keeps its place
MapSet(m, key, value) ==
    IF MapHas(m, key)
    THEN [i \in 1..Len(m) |-> IF m[i][1] = key THEN <<key, value>> ELSE m[i]]
    ELSE Append(m, <<key, value>>)
MapKeys(m) == {m[i][1] : i \in 1..Len(m)}

\* mapper ? mapper.normalizeLocation(drive.location, drive.parent) : drive.serial,
\* then key || drive.serial
MonitorKey(mapper, drive) ==
    LET key == IF mapper = "null" THEN drive.serial
               ELSE normalizeLocation(drive.location, drive.parent)
    IN  IF Truthy(key) THEN key ELSE drive.serial

RECURSIVE SnapshotFrom(_, _, _)
\* for (const drive of drives) map.set(key || drive.serial, drive)
SnapshotFrom(mapper, drives, m) ==
    IF drives = <<>> THEN m
    ELSE SnapshotFrom(mapper, Tail(drives), MapSet(m, MonitorKey(mapper, Head(drives)), Head(drives)))

\* mapper ? mapper.getPhysicalPort(drive.location, drive.parent) : null
MonitorPort(mapper, m, drive) ==
    IF mapper = "null" THEN JsNull ELSE getPhysicalPort(m, drive.location, drive.parent).val

MonitorEvent(kind, mapper, m, entry) ==
    [kind |-> kind, key |-> entry[1], drive |-> entry[2], port |-> MonitorPort(mapper, m, entry[2])]

\* the lines of one poll: the drives that are new, then the drives removed
PollEvents(mapper, m, previous, current) ==
    LET new == SelectSeq(current, LAMBDA e : ~MapHas(previous, e[1]))
        removed == SelectSeq(previous, LAMBDA e : ~MapHas(current, e[1]))
    IN  [i \in 1..Len(new) |-> MonitorEvent("appeared", mapper, m, new[i])]
        \o [i \in 1..Len(removed) |-> MonitorEvent("disappeared", mapper, m, removed[i])]

----------------
(* Specifications *)

NoResult == [done |-> FALSE, prefix |-> Null, index |-> Null, key |-> Null]

Observation(l, p) == [location |-> l, parent |-> p, out |-> NoResult]

Normalized(o) ==
    [o EXCEPT !.out =
        [done |-> TRUE,
         prefix |-> extractChipPrefix(ParentString(o.parent)),
         index |-> extractPortIndex(LocationString(o.location)),
         key |-> normalizeLocation(LocationString(o.location), ParentString(o.parent))]]

NoObservation == Observation(RawLocation(Null), RawParent(Null))

\* a PortMapper call: the method, its arguments, the value of the key before
\* the call (undefined when it had none), and what the call returned or threw
Call(op, o, port, prior, out) ==
    [op |-> op, location |-> o.location, parent |-> o.parent, port |-> port,
     prior |-> prior, out |-> out]
NoCall == Call("none", Obs(Null, Null), JsUndefined, JsUndefined, ReturnBool(FALSE))

NormalizerIdle == obs = NoObservation

MapperIdle ==
    /\ mappings = <<>>
    /\ call = NoCall

\* a store call: the function, the document passed, how the file system
\* answered, the file before the call, and what the call returned or threw
StoreCall(op, data, io, before, out) ==
    [op |-> op, data |-> data, io |-> io, before |-> before, out |-> out]
NoStoreCall == StoreCall("none", NullDocument, "ok", Absent, StoreReturn(NullDocument))

StoreIdle ==
    /\ file = Absent
    /\ storeCall = NoStoreCall

\* a completed poll: its number, whether the scan succeeded, the retained
\* snapshot before it, the snapshot it built and the lines it wrote
Poll(id, ok, previous, current, events) ==
    [id |-> id, ok |-> ok, previous |-> previous, current |-> current, events |-> events,
     source |-> 0, failed |-> {}]
\* the record of a poll, with the poll whose scan gave the snapshot that is
\* retained after it (0: the initial scan) and the polls that have failed
After(last, p) ==
    [p EXCEPT !.source = IF p.ok THEN p.id ELSE last.source,
              !.failed = IF p.ok THEN last.failed ELSE last.failed \cup {p.id}]
NoPoll == Poll(0, FALSE, <<>>, <<>>, <<>>)

CliIdle ==
    /\ pc = "none"
    /\ cli = Process("none")
    /\ wizard = NoWizard

MonitorIdle ==
    /\ previousDrives = <<>>
    /\ polls = 0
    /\ inflight = {}
    /\ lastPoll = NoPoll

(* Key Normalizer: an observation is drawn and the extraction functions are *)
(* applied to it.                                                           *)

InitNormalize ==
    /\ obs \in {Observation(l, p) : l \in LocationInputs, p \in ParentInputs}
    /\ MapperIdle
    /\ StoreIdle
    /\ CliIdle
    /\ MonitorIdle

Normalize ==
    /\ ~obs.out.done
    /\ obs' = Normalized(obs)
    /\ UNCHANGED <<mapperVars, storeVars, cliVars, monitorVars>>

NextNormalize == Normalize

SpecNormalize == InitNormalize /\ [][NextNormalize]_vars

(* PortMapper: constructed from the mappings of a document, then any       *)
(* sequence of its methods.                                                *)

InitMapper ==
    /\ NormalizerIdle
    /\ mappings \in InitialMappings
    /\ call = NoCall
    /\ StoreIdle
    /\ CliIdle
    /\ MonitorIdle

PriorOf(o) == ObjectGet(mappings, normalizeLocation(o.location, o.parent))

AddMapping(o, port) ==
    LET r == addMapping(mappings, o.location, o.parent, port)
    IN  /\ mappings' = r.mappings
        /\ call' = Call("addMapping", o, port, PriorOf(o), r.out)
        /\ UNCHANGED <<normVars, storeVars, cliVars, monitorVars>>

Query(op, o, out) ==
    /\ call' = Call(op, o, JsUndefined, PriorOf(o), out)
    /\ UNCHANGED <<mappings, normVars, storeVars, cliVars, monitorVars>>

GetPhysicalPort(o) == Query("getPhysicalPort", o, getPhysicalPort(mappings, o.location, o.parent))
HasMapping(o) == Query("hasMapping", o, hasMapping(mappings, o.location, o.parent))
GetExistingPort(o) == Query("getExistingPort", o, getExistingPort(mappings, o.location, o.parent))
IsKnownChip(o) == Query("isKnownChip", o, isKnownChip(mappings, o.location, o.parent))
IsCalibrated == Query("isCalibrated", Obs(Null, Null), isCalibrated(mappings))
GetMappingCount == Query("getMappingCount", Obs(Null, Null), getMappingCount(mappings))

NextMapper ==
    \/ \E o \in AddObs, port \in PortArgs : AddMapping(o, port)
    \/ \E o \in QueryObs : GetPhysicalPort(o)
    \/ \E o \in QueryObs : HasMapping(o)
    \/ \E o \in QueryObs : GetExistingPort(o)
    \/ \E o \in QueryObs : IsKnownChip(o)
    \/ IsCalibrated
    \/ GetMappingCount

SpecMapper == InitMapper /\ [][NextMapper]_vars

(* Calibration Store: any sequence of its functions on the file.  A write  *)
(* or an unlink ends as the file system decides.                           *)

InitStore ==
    /\ NormalizerIdle
    /\ MapperIdle
    /\ file \in InitialFiles
    /\ storeCall = NoStoreCall
    /\ CliIdle
    /\ MonitorIdle

Validate(data) ==
    LET v == validate(data)
    IN  /\ storeCall' = StoreCall("validate", data, "ok", file,
                                  IF v.ok THEN StoreReturnBool(TRUE) ELSE StoreThrow(v.msg, ""))
        /\ UNCHANGED <<file, normVars, mapperVars, cliVars, monitorVars>>

Exists ==
    /\ storeCall' = StoreCall("exists", NullDocument, "ok", file, StoreReturnBool(exists(file)))
    /\ UNCHANGED <<file, normVars, mapperVars, cliVars, monitorVars>>

Load ==
    /\ storeCall' = StoreCall("load", NullDocument, "ok", file, load(file))
    /\ UNCHANGED <<file, normVars, mapperVars, cliVars, monitorVars>>

Save(data, io) ==
    LET r == save(file, data, io)
    IN  /\ file' = r.file
        /\ storeCall' = StoreCall("save", data, io, file, r.out)
        /\ UNCHANGED <<normVars, mapperVars, cliVars, monitorVars>>

Clear(io) ==
    LET r == clear(file, io)
    IN  /\ file' = r.file
        /\ storeCall' = StoreCall("clear", NullDocument, io, file, r.out)
        /\ UNCHANGED <<normVars, mapperVars, cliVars, monitorVars>>

CreateEmpty ==
    /\ storeCall' = StoreCall("createEmpty", NullDocument, "ok", file, StoreReturn(createEmpty))
    /\ UNCHANGED <<file, normVars, mapperVars, cliVars, monitorVars>>

NextStore ==
    \/ \E data \in ValidateInputs : Validate(data)
    \/ Exists
    \/ Load
    \/ \E data \in SaveInputs, io \in IoOutcomes : Save(data, io)
    \/ \E io \in IoOutcomes : Clear(io)
    \/ CreateEmpty

SpecStore == InitStore /\ [][NextStore]_vars

(* The status and calibrate commands, from the start of the process.  An   *)
(* action is the code between two awaits.                                  *)

InitCli ==
    /\ NormalizerIdle
    /\ MapperIdle
    /\ file \in InitialFiles
    /\ storeCall = NoStoreCall
    /\ pc = "start"
    /\ cli \in {Process("status"), Process("calibrate")}
    /\ wizard = NoWizard
    /\ MonitorIdle

Running(at) == pc = at /\ ~cli.exited

\* cmdStatus up to its first await
StatusLoad ==
    /\ Running("start") /\ cli.cmd = "status"
    /\ LET r == load(file)
           c == Loaded(cli, file, r)
       IN  IF ~r.threw
           THEN /\ mappings' = PortMapper(r.doc)
                /\ cli' = [c EXCEPT !.mapper = "object"]
                /\ pc' = "status_scan"
           ELSE IF IsCorruptedMessage(r.msg)
           THEN /\ cli' = Asking(Reporting([c EXCEPT !.recovery = TRUE], "corrupted", <<>>))
                /\ pc' = "status_ask_delete"
                /\ UNCHANGED mappings
           ELSE /\ cli' = MainCatch(c, r.msg)
                /\ pc' = "exit"
                /\ UNCHANGED mappings
    /\ UNCHANGED <<call, normVars, storeVars, monitorVars, wizard>>

\* the answer to 'Delete and recalibrate? (Y/n)'
StatusAnswerDelete(answer, io) ==
    /\ Running("status_ask_delete")
    /\ IF ~IsNo(answer)
       THEN LET r == clear(file, io)
            IN  /\ file' = r.file
                /\ cli' = IF r.out.threw THEN MainCatch(cli, r.out.msg)
                           ELSE Exiting(Reporting(cli, "cleared", <<>>), 0)
       ELSE /\ cli' = Exiting(cli, 0)
            /\ UNCHANGED file
    /\ pc' = "exit"
    /\ UNCHANGED <<storeCall, normVars, mapperVars, monitorVars, wizard>>

\* the scan of cmdStatus completes, and the table is written
StatusScan(run) ==
    /\ Running("status_scan")
    /\ LET r == getDrives(run)
           c == [cli EXCEPT !.scan = Scan(run)]
       IN  cli' = IF r.threw THEN Exiting(Reporting(c, "scan_error", r.msg), 1)
                  ELSE Exiting(Reporting([c EXCEPT
                                   !.table = StatusTable(cli.mapper, mappings, EmptyTable, r.items)],
                               "status", <<>>), 0)
    /\ pc' = "exit"
    /\ UNCHANGED <<normVars, mapperVars, storeVars, monitorVars, wizard>>

\* cmdCalibrate up to its first await
CalibrateLoad(io) ==
    /\ Running("start") /\ cli.cmd = "calibrate"
    /\ LET r == load(file)
           c == Loaded(cli, file, r)
       IN  IF ~r.threw
           THEN /\ IF r.doc.truthy
                   THEN /\ cli' = Asking(Reporting(c, "existing", <<>>))
                        /\ pc' = "calibrate_ask_overwrite"
                   ELSE /\ cli' = Asking(c)
                        /\ pc' = "calibrate_ask_ready"
                /\ UNCHANGED file
           ELSE IF IsCorruptedMessage(r.msg)
           THEN LET d == clear(file, io)
                    w == Reporting([c EXCEPT !.recovery = TRUE], "corrupted", <<>>)
                IN  /\ file' = d.file
                    /\ IF d.out.threw
                       THEN cli' = MainCatch(w, d.out.msg) /\ pc' = "exit"
                       ELSE cli' = Asking(w) /\ pc' = "calibrate_ask_ready"
           ELSE /\ cli' = Asking(c)
                /\ pc' = "calibrate_ask_ready"
                /\ UNCHANGED file
    /\ UNCHANGED <<storeCall, normVars, mapperVars, monitorVars, wizard>>

Cancelled(c) == Exiting(Reporting(c, "cancelled", <<>>), 0)

\* the answer to 'Overwrite? (Y/n)'
CalibrateAnswerOverwrite(answer) ==
    /\ Running("calibrate_ask_overwrite")
    /\ IF IsNo(answer)
       THEN cli' = Cancelled(cli) /\ pc' = "exit"
       ELSE cli' = cli /\ pc' = "calibrate_ask_ready"
    /\ UNCHANGED <<normVars, mapperVars, storeVars, monitorVars, wizard>>

\* the answer to 'Ready to begin? (Y/n)': the wizard starts on an empty
\* document, with the prompt for port 1
CalibrateAnswerReady(answer) ==
    /\ Running("calibrate_ask_ready")
    /\ IF IsNo(answer)
       THEN /\ cli' = Cancelled(cli)
            /\ pc' = "exit"
            /\ UNCHANGED <<mappings, wizard>>
       ELSE /\ cli' = [cli EXCEPT !.mapper = "object"]
            /\ mappings' = PortMapper(createEmpty)
            /\ wizard' = StartStep(Wizard(0, PortMapper(createEmpty), 0), 1)
            /\ pc' = "calibrate_insert"
    /\ UNCHANGED <<call, normVars, storeVars, monitorVars>>

\* a handler that exits without closing the readline interface
Interrupt_KeepsPrompt ==
    /\ ~cli.exited
    /\ cli.rl
    /\ cli' = [Reporting(Signalled(cli), "interrupted", <<>>) EXCEPT !.exited = TRUE]
    /\ pc' = "exit"
    /\ wizard' = [wizard EXCEPT !.event = NoEvent]
    /\ UNCHANGED <<normVars, mapperVars, storeVars, monitorVars>>

\* SIGINT once the readline interface exists: 'Exiting...', rl.close(),
\* process.exit(0)
Interrupt ==
    /\ ~cli.exited
    /\ cli.rl
    /\ cli' = Exiting(Reporting(Signalled(cli), "interrupted", <<>>), 0)
    /\ pc' = "exit"
    /\ wizard' = [wizard EXCEPT !.event = NoEvent]
    /\ UNCHANGED <<normVars, mapperVars, storeVars, monitorVars>>

NextCli ==
    \/ StatusLoad
    \/ \E answer \in Answers, io \in IoOutcomes : StatusAnswerDelete(answer, io)
    \/ \E run \in ScanStreams : StatusScan(run)
    \/ \E io \in IoOutcomes : CalibrateLoad(io)
    \/ \E answer \in Answers : CalibrateAnswerOverwrite(answer)
    \/ \E answer \in Answers : CalibrateAnswerReady(answer)
    \/ Interrupt

SpecCli == InitCli /\ [][NextCli]_vars

(* The calibrate command to its end.  The hub has a drive slot for each    *)
(* port; the operator inserts the one drive where asked, or into the slot  *)
(* of port 1 again, or something else is seen.                             *)

\* the drive in the slot of a port
DriveAt(port) ==
    Drive(<<"S", "1">>, PortTag \o <<"0", "0", "0">> \o NatToString(port) \o HubSuffix,
          ObsMain2.parent)
\* a drive behind a port numbered in 22 digits
DriveBig == Drive(<<"S", "4">>, PortTag \o BigPort, ObsMain2.parent)

\* what a scan of a step may see: nothing, the drive in the slot of the port
\* or of port 1, a drive that does not normalize, two drives; at the last
\* port also the drive behind the long port number
CalibrateSnapshots(port) ==
    {<<>>, <<DriveAt(port)>>, <<DriveAt(1)>>, <<DriveN>>, <<DriveAt(port), DriveN>>}
    \cup (IF port = LastPort THEN {<<DriveBig>>} ELSE {})
CalibrateRuns(port) ==
    {<<JsonOf(d), JsonOf(d)>> : d \in CalibrateSnapshots(port)}
    \cup {<<e, e>> : e \in {Stdout(FALSE, FALSE, FALSE, <<>>), ExecError("ENOENT", FALSE)}}
    \cup {<<ExecError("", TRUE), e>> : e \in {ExecError("", TRUE), JsonOf(<<DriveAt(port)>>)}}

CalibrateFiles == {Absent, JsonText(DocumentOf(JsStr(SCHEMA_VERSION), MapObject(TwoEntries)))}

InitCalibrate ==
    /\ NormalizerIdle
    /\ MapperIdle
    /\ file \in CalibrateFiles
    /\ storeCall = NoStoreCall
    /\ pc = "start"
    /\ cli = Process("calibrate")
    /\ wizard = NoWizard
    /\ MonitorIdle

Becomes(config) ==
    \E k \in {config} :
        /\ pc' = k.pc
        /\ cli' = k.cli
        /\ wizard' = k.wizard
        /\ mappings' = k.mappings
        /\ file' = k.file
        /\ UNCHANGED <<call, storeCall, normVars, monitorVars>>

\* ENTER at 'Insert USB drive into PORT n': 'Scanning...', the sleep, and
\* the first scan is started
CalibrateInsert ==
    /\ Running("calibrate_insert")
    /\ Becomes([Said(Config, "scanning") EXCEPT !.pc = "calibrate_scan"])

\* a scan of the step that treats a failed scan as one that saw no drive
CalibrateScan_FailureAsNone(run, io) ==
    /\ Running("calibrate_scan")
    /\ LET r == getDrives(run)
           k == [Config EXCEPT !.wizard.scans = @ + 1, !.wizard.drives = r.items,
                               !.wizard.event.scan = TRUE, !.wizard.event.scanThrew = r.threw]
       IN  IF Len(r.items) = 0
           THEN Becomes([Said(Said(k, "none_detected"), "retry") EXCEPT !.pc = "calibrate_ask_retry"])
           ELSE IF Len(r.items) > 1
           THEN Becomes([Said(Said(k, "multiple"), "extra") EXCEPT !.pc = "calibrate_ask_extra"])
           ELSE Becomes(SingleDrive(k, r.items[1], io))

\* a scan of the step completes
CalibrateScan(run, io) ==
    /\ Running("calibrate_scan")
    /\ LET r == getDrives(run)
           k == [Config EXCEPT !.wizard.scans = @ + 1, !.wizard.drives = r.items,
                               !.wizard.event.scan = TRUE, !.wizard.event.scanThrew = r.threw]
       IN  IF r.threw
           THEN Becomes([Config EXCEPT !.wizard.scans = @ + 1, !.wizard.event.scan = TRUE,
                                       !.wizard.event.scanThrew = TRUE, !.pc = "exit",
                                       !.cli = Exiting(Reporting(@, "scan_error", r.msg), 1)])
           ELSE IF Len(r.items) = 0
           THEN Becomes([Said(Said(k, "none_detected"), "retry") EXCEPT !.pc = "calibrate_ask_retry"])
           ELSE IF Len(r.items) > 1
           THEN Becomes([Said(Said(k, "multiple"), "extra") EXCEPT !.pc = "calibrate_ask_extra"])
           ELSE Becomes(SingleDrive(k, r.items[1], io))

\* the answer to 'Press ENTER to retry or type "skip" to skip this port'
CalibrateAnswerRetry(answer, io) ==
    /\ Running("calibrate_ask_retry")
    /\ IF ToLowerCase(answer) = <<"s", "k", "i", "p">>
       THEN Becomes(NextPort(Said(Config, "skipped"), io))
       ELSE Becomes(ScanAgain(Config, io))

\* a wizard that maps the first of several drives
CalibrateAnswerExtra_MapFirst(io) ==
    /\ Running("calibrate_ask_extra")
    /\ Becomes(AddAndGoOn(Config, wizard.drives[1], io))

\* ENTER at 'Remove extra drives and press ENTER to retry'
CalibrateAnswerExtra(io) ==
    /\ Running("calibrate_ask_extra")
    /\ Becomes(ScanAgain(Config, io))

\* a wizard that remaps whatever the answer
CalibrateAnswerRemap_Always(answer, io) ==
    /\ Running("calibrate_ask_remap")
    /\ Becomes(AddAndGoOn(Answered(Config, answer), wizard.drives[1], io))

\* the answer to 'Remap to port n? (Y/n)'
CalibrateAnswerRemap(answer, io) ==
    /\ Running("calibrate_ask_remap")
    /\ IF IsNo(answer)
       THEN Becomes(NextPort(Said(Answered(Config, answer), "skipped"), io))
       ELSE Becomes(AddAndGoOn(Answered(Config, answer), wizard.drives[1], io))

\* ENTER at 'Remove the drive, then press ENTER...'
CalibrateAnswerRemove ==
    /\ Running("calibrate_ask_remove")
    /\ Becomes(NextPort(Config, "ok"))

RetryAnswers == {<<>>, <<"s", "k", "i", "p">>, <<"S", "k", "i", "p">>}
\* how the write of store.save may end, in the step that is followed by it
SaveOutcomes(port) == IF port = LastPort THEN {"ok", "EACCES", "EIO"} ELSE {"ok"}

NextCalibrate ==
    \/ \E io \in IoOutcomes : CalibrateLoad(io)
    \/ \E answer \in Answers : CalibrateAnswerOverwrite(answer)
    \/ \E answer \in Answers : CalibrateAnswerReady(answer)
    \/ CalibrateInsert
    \/ \E run \in CalibrateRuns(wizard.port), io \in SaveOutcomes(wizard.port) :
            CalibrateScan(run, io)
    \/ \E answer \in RetryAnswers, io \in SaveOutcomes(wizard.port) :
            CalibrateAnswerRetry(answer, io)
    \/ \E io \in SaveOutcomes(wizard.port) : CalibrateAnswerExtra(io)
    \/ \E answer \in Answers, io \in SaveOutcomes(wizard.port) :
            CalibrateAnswerRemap(answer, io)
    \/ CalibrateAnswerRemove
    \/ Interrupt

SpecCalibrate == InitCalibrate /\ [][NextCalibrate]_vars

(* The monitor command.  The timer starts a poll every period whether or   *)
(* not earlier polls have completed; a poll completes when its scan does.  *)

MaxPolls == 2

\* no file, a calibration, a file of another version, a text cut short
MonitorFiles ==
    {Absent, UnparseableFile,
     JsonText(DocumentOf(JsStr(SCHEMA_VERSION), MapObject(TwoEntries))),
     JsonText(DocumentOf(JsStr(S_2_0), MapObject(TwoEntries)))}

InitMonitor ==
    /\ NormalizerIdle
    /\ MapperIdle
    /\ file \in MonitorFiles
    /\ storeCall = NoStoreCall
    /\ pc = "start"
    /\ cli = Process("monitor")
    /\ wizard = NoWizard
    /\ MonitorIdle

\* cmdMonitor up to its first await
MonitorLoad ==
    /\ Running("start") /\ cli.cmd = "monitor"
    /\ LET r == load(file)
           c == Loaded(cli, file, r)
       IN  IF ~r.threw
           THEN /\ mappings' = PortMapper(r.doc)
                /\ cli' = IF isCalibrated(PortMapper(r.doc)).bool
                           THEN [c EXCEPT !.mapper = "object"]
                           ELSE Reporting([c EXCEPT !.mapper = "object"], "not_calibrated", <<>>)
                /\ pc' = "monitor_scan"
           ELSE IF IsCorruptedMessage(r.msg)
           THEN /\ cli' = Exiting(Reporting(c, "corrupted", <<>>), 1)
                /\ pc' = "exit"
                /\ UNCHANGED mappings
           ELSE /\ cli' = Reporting(c, "not_calibrated", <<>>)
                /\ pc' = "monitor_scan"
                /\ UNCHANGED mappings
    /\ UNCHANGED <<call, normVars, storeVars, monitorVars, wizard>>

\* the initial scan completes
MonitorInitialScan(run) ==
    /\ Running("monitor_scan")
    /\ LET r == getDrives(run)
       IN  IF r.threw
           THEN /\ cli' = Exiting(Reporting(cli, "scan_error", r.msg), 1)
                /\ pc' = "exit"
                /\ UNCHANGED previousDrives
           ELSE /\ previousDrives' = SnapshotFrom(cli.mapper, r.items, <<>>)
                /\ pc' = "monitor_watch"
                /\ UNCHANGED cli
    /\ UNCHANGED <<polls, inflight, lastPoll, wizard, normVars, mapperVars, storeVars>>

\* the interval timer fires: the callback starts a scan
PollStart ==
    /\ Running("monitor_watch")
    /\ polls < MaxPolls
    /\ polls' = polls + 1
    /\ inflight' = inflight \cup {polls + 1}
    /\ UNCHANGED <<previousDrives, lastPoll, normVars, mapperVars, storeVars, cliVars>>

\* a callback that gives up the monitor when its scan fails
PollComplete_FailureStops(id, run) ==
    /\ Running("monitor_watch")
    /\ id \in inflight
    /\ inflight' = inflight \ {id}
    /\ LET r == getDrives(run)
           currentMap == SnapshotFrom(cli.mapper, r.items, <<>>)
       IN  IF r.threw
           THEN /\ lastPoll' = After(lastPoll, Poll(id, FALSE, previousDrives, <<>>, <<>>))
                /\ cli' = Exiting(Reporting(cli, "scan_error", r.msg), 1)
                /\ pc' = "exit"
                /\ UNCHANGED <<previousDrives, wizard>>
           ELSE /\ lastPoll' = After(lastPoll, Poll(id, TRUE, previousDrives, currentMap,
                                    PollEvents(cli.mapper, mappings, previousDrives, currentMap)))
                /\ previousDrives' = currentMap
                /\ UNCHANGED cliVars
    /\ UNCHANGED <<polls, normVars, mapperVars, storeVars>>

\* the scan of poll id completes: the rest of the callback
PollComplete(id, run) ==
    /\ Running("monitor_watch")
    /\ id \in inflight
    /\ inflight' = inflight \ {id}
    /\ LET r == getDrives(run)
           currentMap == SnapshotFrom(cli.mapper, r.items, <<>>)
       IN  IF r.threw
           THEN /\ lastPoll' = After(lastPoll, Poll(id, FALSE, previousDrives, <<>>, <<>>))
                /\ UNCHANGED previousDrives
           ELSE /\ lastPoll' = After(lastPoll, Poll(id, TRUE, previousDrives, currentMap,
                                    PollEvents(cli.mapper, mappings, previousDrives, currentMap)))
                /\ previousDrives' = currentMap
    /\ UNCHANGED <<polls, normVars, mapperVars, storeVars, cliVars>>

\* SIGINT while watching: clearInterval, 'Monitor stopped.', process.exit(0)
MonitorInterrupt ==
    /\ Running("monitor_watch")
    /\ cli' = Exiting(Reporting(Signalled(cli), "stopped", <<>>), 0)
    /\ pc' = "exit"
    /\ inflight' = {}
    /\ UNCHANGED <<previousDrives, polls, lastPoll, wizard, normVars, mapperVars, storeVars>>

NextMonitor ==
    \/ MonitorLoad
    \/ \E run \in ScanRuns : MonitorInitialScan(run)
    \/ PollStart
    \/ \E id \in inflight, run \in ScanRuns : PollComplete(id, run)
    \/ MonitorInterrupt

SpecMonitor == InitMonitor /\ [][NextMonitor]_vars

(* The three commands that wait: status, calibrate and monitor, each from   *)
(* the files of its own specification.                                      *)

InitCommands ==
    \/ InitCalibrate
    \/ InitMonitor
    \/ InitCli /\ cli.cmd = "status" /\ file \in MonitorFiles

NextCommands ==
    \/ NextCli
    \/ NextCalibrate
    \/ NextMonitor

SpecCommands == InitCommands /\ [][NextCommands]_vars

----------------
(* Key Normalizer properties *)

\* Two parent identifiers carry the same chip-prefix segment: they may differ
\* in the device node, in the case of the hex digits and in what follows.
SameChipSegment(p, q) ==
    /\ p.wf /\ q.wf
    /\ Len(p.chip) = Len(q.chip)
    /\ \A i \in 1..Len(p.chip) : ToUpperChar(p.chip[i]) = ToUpperChar(q.chip[i])

\* Two locations carry the same port number: they may differ in the leading
\* zeros, in the case of the tag and in what follows the digits.
SamePortNumber(l, m) == l.wf /\ m.wf /\ l.digits = m.digits

NoLowerCase(s) == \A i \in 1..Len(s) : \A j \in 1..26 : s[i] # LowerSeq[j]

\* C2: the identity key does not depend on the speed-class device node.  For
\* the observation made and every other observation whose parent has the same
\* chip-prefix segment (another device node, another letter case, another
\* tail) and whose location has the same port number (other leading zeros,
\* another suffix), extractChipPrefix gives the same uppercased prefix,
\* extractPortIndex the same index and normalizeLocation the same key.
C2_KeyIndependentOfDeviceNode ==
    (obs.out.done /\ obs.parent.wf /\ obs.location.wf) =>
        /\ obs.out.prefix # Null
        /\ NoLowerCase(obs.out.prefix)
        /\ obs.out.key # Null
        /\ \A p \in ParentInputs :
              SameChipSegment(p, obs.parent) =>
                  extractChipPrefix(ParentString(p)) = obs.out.prefix
        /\ \A l \in LocationInputs :
              SamePortNumber(l, obs.location) =>
                  /\ extractPortIndex(LocationString(l)) = obs.out.index
                  /\ \A p \in ParentInputs :
                        SameChipSegment(p, obs.parent) =>
                            normalizeLocation(LocationString(l), ParentString(p)) = obs.out.key

\* C2 witness: the spec's port 3 seen through the USB 2.0 node, in lower-case
\* hex and with other surroundings, has the key of the USB 3.0 observation.
C2_Witness ==
    /\ obs.out.done
    /\ obs.parent.wf /\ obs.parent.node = Node20 /\ obs.parent.chip = ChipLower
    /\ obs.location.wf /\ obs.location.lead = 3 /\ obs.location.suffix = HubSuffix
    /\ obs.out.key = ChipMain \o <<"|", "3">>
    /\ obs.out.key = normalizeLocation(PortTag \o <<"3">>,
                                       Node30 \o <<Bs>> \o ChipMain \o <<"&", "0", "&", "3">>)

\* C3: normalizeLocation is absent whenever a sub-extraction is absent, an
\* index of all zeros is "0", and every key returned matches the store's key
\* pattern.
C3_KeyAlwaysMatchesStorePattern ==
    obs.out.done =>
        /\ (obs.out.prefix = Null \/ obs.out.index = Null) => obs.out.key = Null
        /\ (obs.location.wf /\ obs.location.digits = <<"0">>) => obs.out.index = <<"0">>
        /\ obs.out.key # Null => KeyPatternTest(obs.out.key)

----------------------------------------------------------------------------
(* PortMapper properties *)

Count(m) == Cardinality(DOMAIN m)
KeyOfCall(c) == normalizeLocation(c.location, c.parent)
ValidPort(v) == v \in {JsInt(n) : n \in 1..7}
AddSucceeded(c) == c.op = "addMapping" /\ ~c.out.threw

\* C1: addMapping is an upsert that lookup observes.  A successful
\* addMapping(location, parent, p) returns the key k the arguments normalize
\* to and leaves k mapped to p; every other entry is as before; the count
\* grows by one exactly when k was not mapped before; getPhysicalPort on every
\* observation that normalizes to k returns p; and no other method changes
\* the mapping, so that p is returned until the next addMapping for k.
C1_Step ==
    /\ AddSucceeded(call') =>
          LET k == call'.out.key
              p == call'.port
          IN  /\ k # Null /\ k = KeyOfCall(call')
              /\ ValidPort(p)
              /\ DOMAIN mappings' = DOMAIN mappings \cup {k}
              /\ mappings'[k] = p
              /\ \A j \in DOMAIN mappings \ {k} : mappings'[j] = mappings[j]
              /\ Count(mappings') = Count(mappings) + (IF k \in DOMAIN mappings THEN 0 ELSE 1)
              /\ getMappingCount(mappings').num = Count(mappings')
              /\ \A o \in QueryObs :
                    normalizeLocation(o.location, o.parent) = k =>
                        getPhysicalPort(mappings', o.location, o.parent).val = p
    /\ ~AddSucceeded(call') => mappings' = mappings
    /\ (call'.op = "getPhysicalPort" /\ KeyOfCall(call') \in DOMAIN mappings) =>
          call'.out.val = mappings[KeyOfCall(call')]

C1_AddMappingIsUpsert == [][C1_Step]_vars

\* C1 witness: the key 9&238498F1|2 mapped to port 4 is added again, through
\* the other device node, with port 7; the count stays 1 and lookup gives 7.
C1_Witness ==
    /\ AddSucceeded(call)
    /\ call.location = ObsMain2Slow.location /\ call.parent = ObsMain2Slow.parent
    /\ call.prior = JsInt(4)
    /\ call.port = JsInt(7)
    /\ Count(mappings) = 1
    /\ getPhysicalPort(mappings, ObsMain2.location, ObsMain2.parent).val = JsInt(7)

\* C4: addMapping fails with the normalization error when no key can be
\* derived, whatever the port; otherwise with the invalid-port error for every
\* port that is not an integer in 1..7; otherwise it succeeds (1 and 7
\* included).  A failing call leaves the mapping as it was.
C4_Step ==
    call'.op = "addMapping" =>
        LET k == KeyOfCall(call')
        IN  /\ k = Null => (call'.out.threw /\ call'.out.msg = MsgCannotNormalize)
            /\ (k # Null /\ ~ValidPort(call'.port)) =>
                  (call'.out.threw /\ call'.out.msg = MsgInvalidPort)
            /\ (k # Null /\ ValidPort(call'.port)) => ~call'.out.threw
            /\ call'.out.threw => mappings' = mappings

C4_AddMappingErrors == [][C4_Step]_vars

\* C4 witness: port 8 is refused for a key that is mapped, and the mapping
\* still holds the earlier value.
C4_Witness ==
    /\ call.op = "addMapping"
    /\ call.out.threw /\ call.out.msg = MsgInvalidPort
    /\ call.port = JsInt(8)
    /\ call.prior = JsInt(1)
    /\ ObjectGet(mappings, KeyOfCall(call)) = JsInt(1)

PartBeforeBar(key) ==
    LET bars == {i \in 1..Len(key) : key[i] = "|"}
    IN  IF bars = {} THEN key ELSE SubSeq(key, 1, Min(bars) - 1)

\* C6: isKnownChip(location, parent) is true iff a chip prefix can be
\* extracted from parent and some mapping key has exactly that prefix before
\* its '|'.
C6_KnownChipIffPrefixOfAKey ==
    call.op = "isKnownChip" =>
        LET prefix == extractChipPrefix(call.parent)
        IN  call.out.bool =
               (prefix # Null /\ \E k \in DOMAIN mappings : PartBeforeBar(k) = prefix)

\* C6 witness: port 3 of the main chip has no mapping, port 2 has one: the
\* chip is known.
C6_Witness ==
    /\ call.op = "isKnownChip"
    /\ call.location = ObsMain3.location /\ call.parent = ObsMain3.parent
    /\ call.out.bool
    /\ KeyOfCall(call) \notin DOMAIN mappings
    /\ DOMAIN mappings = {KeyOfCall(Obs(ObsMain2.location, ObsMain2.parent))}

(* Calibration Store *)

\* the mappings alone pass validation: in a document that is otherwise valid
MappingsPassValidation(maps) == validate(DocumentOf(JsStr(SCHEMA_VERSION), maps)).ok

SaveReturned(c) == c.op = "save" /\ ~c.out.threw
ClearReturned(c) == c.op = "clear" /\ ~c.out.threw

\* C7: store round-trip.  For a document d whose mappings pass validation,
\* save(d) completes when the write does, and a load() after a completed
\* save(d) returns a document whose mappings equal d.mappings and whose
\* version is "1.0", whatever version d carried; a load() after a completed
\* clear() returns absent (null); clear() with no file returns without
\* changing anything.
C7_StoreRoundTrip ==
    /\ (storeCall.op = "save" /\ MappingsPassValidation(storeCall.data.mappings)) =>
          /\ storeCall.io = "ok" => ~storeCall.out.threw
          /\ ~storeCall.out.threw =>
                LET r == load(file)
                IN  /\ ~r.threw
                    /\ r.doc.kind = "object"
                    /\ r.doc.mappings = storeCall.data.mappings
                    /\ r.doc.version = JsStr(SCHEMA_VERSION)
    /\ ClearReturned(storeCall) => load(file) = StoreReturn(NullDocument)
    /\ (storeCall.op = "clear" /\ ~exists(storeCall.before)) =>
          /\ ~storeCall.out.threw
          /\ file = storeCall.before

\* a document carrying another version and two entries was saved over a file
\* that held something else
C7_Witness ==
    /\ SaveReturned(storeCall)
    /\ storeCall.data.mappings = MapObject(TwoEntries)
    /\ storeCall.data.version = JsStr(S_2_0)
    /\ exists(storeCall.before)
    /\ storeCall.before # file

IsStructuredRecord(d) == d.kind = "object"
IsMapping(maps) == maps.kind = "object"
EveryKeyMatches(maps) == \A i \in 1..Len(maps.entries) : KeyPatternTest(maps.entries[i][1])
EveryValueIsPort(maps) ==
    \A i \in 1..Len(maps.entries) : maps.entries[i][2] \in {JsInt(n) : n \in MinPort..MaxPort}

\* C8: validate accepts a document iff it is a structured record, its
\* version equals "1.0", its mappings field is present and is a mapping,
\* every key matches the identity-key pattern and every value is an integer
\* in 1..7.
C8_ValidateAcceptsIff ==
    storeCall.op = "validate" =>
        (~storeCall.out.threw <=>
            /\ IsStructuredRecord(storeCall.data)
            /\ storeCall.data.version = JsStr(SCHEMA_VERSION)
            /\ IsMapping(storeCall.data.mappings)
            /\ EveryKeyMatches(storeCall.data.mappings)
            /\ EveryValueIsPort(storeCall.data.mappings))

(* Commands *)

IsUnparseable(f) == f.exists /\ f.syntaxError
FailsValidation(f) == f.exists /\ ~f.syntaxError /\ ~validate(f.value).ok

\* C9: load() returns absent (null) when there is no file, fails with the
\* corruption error on a file that does not parse and with the schema error
\* of validate on a file that parses and fails validation; and the status
\* and calibrate commands take the delete-and-recalibrate path only when the
\* file they loaded does not parse, whatever a parseable file holds.
C9_RecoveryOnlyForUnparseable ==
    cli.loaded =>
        /\ ~exists(cli.loadedFile) => cli.loadOut = StoreReturn(NullDocument)
        /\ IsUnparseable(cli.loadedFile) =>
              cli.loadOut.threw /\ StartsWith(cli.loadOut.msg, MsgCorruptedHead)
        /\ FailsValidation(cli.loadedFile) =>
              cli.loadOut = StoreThrow(validate(cli.loadedFile.value).msg, "")
        /\ cli.recovery => IsUnparseable(cli.loadedFile)

(* Monitor *)

\* the key of a drive: its identity key, or its serial number when the
\* location does not normalize
IdentityOrSerial(drive) ==
    LET key == normalizeLocation(drive.location, drive.parent)
    IN  IF key # Null THEN key ELSE drive.serial

SnapshotKeys(m) == {IdentityOrSerial(m[i][2]) : i \in 1..Len(m)}
EventCount(events, kind, key) ==
    Cardinality({i \in 1..Len(events) :
                    events[i].kind = kind /\ IdentityOrSerial(events[i].drive) = key})

\* C10: monitor diff.  After a poll whose scan succeeded, with P the keys of
\* the snapshot retained before it and C the keys of the snapshot it built
\* (identity key, or serial when normalization fails): each key of C \ P was
\* reported as appeared exactly once, each key of P \ C as disappeared
\* exactly once, nothing else was reported, and the retained snapshot is the
\* new snapshot, whole.
C10_MonitorDiff ==
    lastPoll.ok =>
        LET P == SnapshotKeys(lastPoll.previous)
            C == SnapshotKeys(lastPoll.current)
            events == lastPoll.events
        IN  /\ \A k \in C \ P : EventCount(events, "appeared", k) = 1
            /\ \A k \in P \ C : EventCount(events, "disappeared", k) = 1
            /\ \A k \in (P \cup C) \ (C \ P) : EventCount(events, "appeared", k) = 0
            /\ \A k \in (P \cup C) \ (P \ C) : EventCount(events, "disappeared", k) = 0
            /\ previousDrives = lastPoll.current

(* Calibration wizard *)

LastReport(c) == IF c.reported = <<>> THEN Report("none", <<>>) ELSE c.reported[Len(c.reported)]
PastInstructions == wizard.port >= 1
ScanFailed == LastReport(cli).tag = "scan_error"
Interrupted == LastReport(cli).tag = "interrupted"
\* store.save failed in the write: a refusal of the file system
WriteRefused ==
    /\ LastReport(cli).tag = "save_failed"
    /\ LastReport(cli).msg \in {MsgCannotWrite, SystemMessage("EIO")}

\* C11: a calibration run that got past the Instructions confirmation and
\* ended without a scan failure or an interrupt called store.save exactly
\* once, after the step for port 7, with a document whose mappings equal the
\* PortMapper's mapping at that moment, and (unless the file system refused
\* the write) the file holds those mappings and the run ended with status 0,
\* whether 0, some or all 7 ports were mapped; store.save is never called
\* earlier or twice.
C11_SaveOnceAfterPortSeven ==
    /\ wizard.saves <= 1
    /\ wizard.saves = 1 => wizard.port = LastPort + 1
    /\ (cli.exited /\ PastInstructions /\ ~ScanFailed /\ ~Interrupted) =>
          /\ wizard.saves = 1
          /\ wizard.calMappings = mappings
          /\ ~WriteRefused =>
                /\ cli.status = 0
                /\ load(file) = StoreReturn(load(file).doc)
                /\ load(file).doc.mappings = MapObject(EntriesOf(mappings))

\* a step of the wizard in which a scan was made
ScanStep == wizard'.scans = wizard.scans + 1 /\ wizard'.port = wizard.port
\* the scan of this step ended in a failure of the scanner
ScanFailsInStep == pc = "calibrate_scan" /\ wizard'.event.scan /\ wizard'.event.scanThrew

C12_Step ==
    /\ ScanFailsInStep =>
          /\ cli'.exited
          /\ LastReport(cli').tag = "scan_error"
          /\ cli'.status # 0
          /\ ~cli'.rl
          /\ wizard'.said = wizard.said
          /\ wizard'.adds = wizard.adds
          /\ mappings' = mappings
          /\ wizard'.saves = 0
          /\ file' = file
    /\ (cli.exited /\ ScanFailed) => vars' = vars

\* C12: a scan failure in a calibration step ends the run at once with a
\* non-zero exit status: the failing step makes no prompt and no addMapping,
\* store.save has not been and is not called and the file is left as it was,
\* whatever had been mapped in earlier steps; nothing happens afterwards.
C12_ScanFailureAborts == [][C12_Step]_vars

\* a scan failed at a later port, with earlier ports mapped
C12_Witness ==
    /\ cli.exited /\ ScanFailed /\ cli.status = 1
    /\ wizard.port > 2
    /\ Cardinality(DOMAIN mappings) >= 2
    /\ file = cli.loadedFile

----------------------------------------------------------------------------
(* C13 *)

Reported(c, tags) == \E i \in DOMAIN c.reported : c.reported[i].tag \in tags
EndedNonZero(c) == c.exited /\ c.status # 0
LoadFailed == cli.loaded /\ cli.loadOut.threw
ScanUnreadable == cli.scan.done /\ ~cli.scan.out.threw /\ cli.scan.unreadable

\* C13: a failure of the store or of the scan raised during a command is
\* reported to the operator or ends the command with a non-zero status: once
\* load has thrown (the schema-validation failure of the existing document
\* included), and once the scan has returned on output that could not be
\* read, the command has reported the failure or has exited non-zero.
C13_NoFailureSilentlyDropped ==
    /\ LoadFailed => (Reported(cli, {"corrupted", "error"}) \/ EndedNonZero(cli))
    /\ ScanUnreadable => (Reported(cli, {"scan_error", "error"}) \/ EndedNonZero(cli))

----------------------------------------------------------------------------
(* C14 *)

TimedOut(e) == e.error /\ e.code # "ENOENT" /\ e.killed
Unavailable(e) == e.error /\ e.code = "ENOENT"

\* C14: one scan runs the script at most twice; a first run that times out
\* is followed by exactly one more run and is not surfaced by itself; a
\* second run that times out surfaces the timeout failure; a run for which
\* PowerShell is missing surfaces that failure at once, with no run after it.
C14_ScanRetriesOnce ==
    cli.scan.done =>
        LET s == cli.scan
            e1 == s.run[1]
            e2 == s.run[2]
        IN  /\ s.execs \in {1, 2}
            /\ s.execs = 2 <=> TimedOut(e1)
            /\ (TimedOut(e1) /\ ~e2.error) => ~s.out.threw
            /\ (TimedOut(e1) /\ TimedOut(e2)) => (s.out.threw /\ s.out.msg = MsgTimedOut)
            /\ Unavailable(e1) => (s.execs = 1 /\ s.out.threw /\ s.out.msg = MsgNoPowerShell)
            /\ (TimedOut(e1) /\ Unavailable(e2)) => (s.out.threw /\ s.out.msg = MsgNoPowerShell)

\* a scan whose first run timed out and whose second run returned a drive
C14_Witness ==
    /\ cli.scan.done
    /\ TimedOut(cli.scan.run[1])
    /\ cli.scan.execs = 2
    /\ ~cli.scan.out.threw
    /\ cli.scan.out.items # <<>>

----------------------------------------------------------------------------
(* C15 *)

StatusShown == cli.cmd = "status" /\ cli.scan.done /\ ~cli.scan.out.threw
PortOf(drive) == getPhysicalPort(mappings, drive.location, drive.parent).val
IsMapped(drive) == JsTruthy(PortOf(drive))
ChipKnown(drive) == isKnownChip(mappings, drive.location, drive.parent).bool
Occurrences(seq, x) == Cardinality({i \in DOMAIN seq : seq[i] = x})

\* C15: in the table of status every observed drive is classified in exactly
\* one way: a drive for which getPhysicalPort returns N is shown in the row
\* of port N and not among the unmapped drives, any other drive is listed as
\* unmapped, as often as it was observed, and no row or unmapped entry shows
\* anything else; the mismatch is raised iff the mapping holds at least one
\* entry and some unmapped drive has isKnownChip false.
C15_StatusClassification ==
    StatusShown =>
        LET drives == cli.scan.out.items
            t == cli.table
        IN  /\ \A i \in DOMAIN drives :
                   IF IsMapped(drives[i])
                   THEN /\ t.ports[PortOf(drives[i]).n].device # Null
                        /\ Occurrences(t.unmapped, drives[i]) = 0
                   ELSE Occurrences(t.unmapped, drives[i]) = Occurrences(drives, drives[i])
            /\ \A p \in 1..LastPort :
                   t.ports[p].device # Null =>
                       \E i \in DOMAIN drives :
                           /\ PortOf(drives[i]) = JsInt(p)
                           /\ t.ports[p].serial = drives[i].serial
            /\ \A j \in DOMAIN t.unmapped : \E i \in DOMAIN drives : drives[i] = t.unmapped[j]
            /\ t.mismatch <=>
                   /\ getMappingCount(mappings).num > 0
                   /\ \E i \in DOMAIN drives : ~IsMapped(drives[i]) /\ ~ChipKnown(drives[i])
            /\ getMappingCount(mappings).num = 0 => ~t.mismatch

\* a table with a drive in the row of its port and the mismatch raised for
\* another drive
C15_Witness ==
    /\ StatusShown
    /\ cli.table.mismatch
    /\ \E p \in 1..LastPort : cli.table.ports[p].device # Null

\* tables of the other kinds: drives seen with an empty mapping, and an
\* unmapped drive of a known chip with a mapping that holds entries
C15_WitnessEmptyMapping ==
    StatusShown /\ getMappingCount(mappings).num = 0 /\ cli.table.unmapped # <<>>
C15_WitnessKnownChip ==
    /\ StatusShown
    /\ getMappingCount(mappings).num > 0
    /\ \E j \in DOMAIN cli.table.unmapped : ChipKnown(cli.table.unmapped[j])

\* two observed drives that getPhysicalPort gives the same port: both are
\* mapped, and the row of the port shows the later one
C15_WitnessSharedRow ==
    /\ StatusShown
    /\ \E i, j \in DOMAIN cli.scan.out.items :
           /\ i < j
           /\ IsMapped(cli.scan.out.items[i])
           /\ PortOf(cli.scan.out.items[i]) = PortOf(cli.scan.out.items[j])
           /\ cli.table.ports[PortOf(cli.scan.out.items[j]).n].serial = cli.scan.out.items[j].serial

----------------------------------------------------------------------------
(* C16 *)

InStep == wizard.port \in 1..LastPort
\* the drives of the last scan of the step, also when the step has ended
SeenInStep == IF wizard'.event.ended THEN wizard'.event.drives ELSE wizard'.drives

C16_Step ==
    LET e == wizard'.event
    IN  /\ wizard'.port \in {wizard.port, wizard.port + 1}
        /\ wizard'.port \in 0..(LastPort + 1)
        /\ (wizard'.port # wizard.port /\ wizard'.port <= LastPort) =>
               (pc' = "calibrate_insert" /\ wizard'.said = {"insert"})
        /\ (pc' = "calibrate_insert" /\ pc # "calibrate_insert") => wizard'.port = wizard.port + 1
        /\ wizard'.saves # wizard.saves => (wizard.port = LastPort /\ wizard'.port = LastPort + 1)
        /\ e.add =>
               /\ InStep
               /\ wizard.adds = 0
               /\ e.addPort = JsInt(wizard.port)
               /\ wizard.scans + (IF e.scan THEN 1 ELSE 0) >= 1
               /\ Len(SeenInStep) = 1
               /\ e.addDrive = SeenInStep
        /\ (InStep /\ mappings' # mappings) => (e.add /\ ~e.addThrew)
        /\ (InStep /\ wizard'.calMappings # wizard.calMappings) => (e.add /\ ~e.addThrew)

\* C16: the wizard takes the ports in the order 1..7, each once (the port
\* only ever goes up by one, each new port begins with its insertion prompt,
\* and the save comes after port 7); addMapping is called at most once in a
\* step, with the drive of a scan of that step that returned exactly one
\* drive and with the number of the port of the step; and the mapping and
\* the mappings of the document change in no other way.
C16_PortsInOrderOneAddPerStep == [][C16_Step]_vars

\* a drive mapped at port 3 by the second scan of the step
C16_Witness ==
    /\ pc = "calibrate_ask_remove"
    /\ wizard.port = 3
    /\ wizard.scans = 2
    /\ wizard.event.add
    /\ wizard.adds = 1
    /\ \E key \in DOMAIN mappings : mappings[key] = JsInt(3)

----------------------------------------------------------------------------
(* C17 *)

\* the port has no entry in the mapping
Unmapped(m, port) == \A key \in DOMAIN m : m[key] # JsInt(port)
\* a step ends without a scan that returned exactly one drive: by skip, or
\* with the attempts used up
EndsUnisolated == wizard'.event.ended /\ Len(wizard'.event.drives) # 1

C17_Step ==
    /\ wizard'.event.scan => (InStep /\ wizard.scans < MaxAttempts)
    /\ wizard.scans <= MaxAttempts
    /\ (InStep /\ EndsUnisolated) =>
           /\ ~wizard'.event.add
           /\ wizard.adds = 0
           /\ mappings' = mappings
           /\ wizard'.calMappings = wizard.calMappings
           /\ Unmapped(mappings', wizard.port)
           /\ wizard'.port = wizard.port + 1
           /\ IF wizard.port < LastPort THEN pc' = "calibrate_insert"
              ELSE wizard'.saves = wizard.saves + 1

\* C17: a step calls getDrives at most 3 times, whether the scans saw no
\* drive or several; a step that ends with no scan having returned exactly
\* one drive (skip typed after a scan that saw none, or the attempts used
\* up) has called no addMapping, leaves the mapping and the document's
\* mappings as they were and the port without an entry, and is followed by
\* the next port (by the save after port 7).
C17_ScanBudget == [][C17_Step]_vars

\* the third scan of a step whose scans saw no drive and several drives has
\* been answered, and the step was abandoned
C17_Witness ==
    /\ wizard.event.ended
    /\ {"none_detected", "multiple", "not_isolated"} \subseteq wizard.event.said
    /\ Len(wizard.event.drives) > 1
    /\ wizard.port = 3
    /\ pc = "calibrate_insert"

\* the step was left by typing skip
C17_WitnessSkip ==
    /\ wizard.event.ended
    /\ "skipped" \in wizard.event.said
    /\ wizard.event.drives = <<>>
    /\ pc = "calibrate_insert"

----------------------------------------------------------------------------
(* C18 *)

DriveKey(drive) == normalizeLocation(drive.location, drive.parent)
HasKey(m, drive) == Truthy(DriveKey(drive)) /\ DriveKey(drive) \in DOMAIN m
\* the operator answers n to (Y/n)
Declines(answer) == answer \in {<<"n">>, <<"N">>}
AnswersRemap == pc = "calibrate_ask_remap" /\ LastReport(cli').tag # "interrupted"
NextPortFollows ==
    /\ wizard'.port = wizard.port + 1
    /\ IF wizard.port < LastPort THEN pc' = "calibrate_insert"
       ELSE wizard'.saves = wizard.saves + 1

C18_Step ==
    LET e == wizard'.event
    IN  \* a single drive whose key the mapping holds: the question, no change
        /\ (InStep /\ e.scan /\ Len(SeenInStep) = 1 /\ HasKey(mappings, SeenInStep[1])) =>
               /\ pc' = "calibrate_ask_remap"
               /\ "remap" \in wizard'.said
               /\ ~e.add
               /\ mappings' = mappings
               /\ wizard'.calMappings = wizard.calMappings
        /\ pc' = "calibrate_ask_remap" => HasKey(mappings', wizard'.drives[1])
        \* the answer
        /\ (AnswersRemap /\ Declines(e.answer)) =>
               /\ ~e.add
               /\ mappings' = mappings
               /\ wizard'.calMappings = wizard.calMappings
               /\ Unmapped(mappings', wizard.port)
               /\ NextPortFollows
        /\ (AnswersRemap /\ ~Declines(e.answer)) =>
               /\ e.add
               /\ e.addDrive = wizard.drives
               /\ mappings'[DriveKey(wizard.drives[1])] = JsInt(wizard.port)
               /\ \A key \in DOMAIN mappings \ {DriveKey(wizard.drives[1])} : mappings'[key] = mappings[key]
               /\ DOMAIN mappings' = DOMAIN mappings

\* C18: when the single drive of a scan resolves to a key that the mapping
\* in progress already holds, the operator is asked to confirm the remap and
\* nothing has changed when the question is put; on the answer n the whole
\* mapping is left as it was, the port gets no entry and the next port
\* follows; on any other answer the key's value becomes the port of the
\* step, and no other entry changes.
C18_RemapNeedsConfirmation == [][C18_Step]_vars

\* the drive mapped at port 1 was seen again at port 2 and the remap was
\* declined: the key still maps to port 1
C18_Witness ==
    /\ wizard.event.ended /\ Declines(wizard.event.answer)
    /\ wizard.port = 3
    /\ "remap" \in wizard.event.said
    /\ HasKey(mappings, wizard.event.drives[1])
    /\ mappings[DriveKey(wizard.event.drives[1])] = JsInt(1)

\* the remap was confirmed at port 2: the key maps to port 2, and port 1 has
\* no entry any more
C18_WitnessConfirmed ==
    /\ pc = "calibrate_ask_remove" /\ wizard.port = 2
    /\ "remap" \in wizard.said
    /\ wizard.event.add
    /\ mappings[DriveKey(wizard.drives[1])] = JsInt(2)
    /\ Unmapped(mappings, 1)

----------------------------------------------------------------------------
(* C19 *)

AddFails == InStep /\ wizard'.event.add /\ wizard'.event.addThrew

C19_Step ==
    /\ AddFails =>
           /\ wizard'.event.ended
           /\ "add_failed" \in wizard'.event.said
           /\ mappings' = mappings
           /\ wizard'.calMappings = wizard.calMappings
           /\ Unmapped(mappings', wizard.port)
           /\ NextPortFollows
           /\ wizard.port < LastPort => ~cli'.exited
    \* the wizard is left before the save only by a failed scan or by SIGINT
    /\ (cli'.exited /\ wizard'.port \in 1..LastPort) =>
           LastReport(cli').tag \in {"scan_error", "interrupted"}

\* C19: an addMapping call of a step that throws is reported, leaves the
\* mapper's mapping and the document's mappings unchanged and the port with
\* no entry, and does not end the procedure: the insertion prompt of the next
\* port follows, after port 7 store.save is called, and the wizard never ends
\* before the save but by a failed scan or an interrupt.
C19_AddFailureNotFatal == [][C19_Step]_vars

\* the drive seen at port 4 has no readable location: addMapping threw, the
\* two ports mapped before are kept, and the wizard is at port 5
C19_Witness ==
    /\ wizard.event.add /\ wizard.event.addThrew
    /\ "add_failed" \in wizard.event.said
    /\ wizard.port = 5 /\ pc = "calibrate_insert"
    /\ Cardinality(DOMAIN mappings) = 2
    /\ Unmapped(mappings, 4)

\* addMapping threw at port 7 and the file was saved with the ports mapped
\* before
C19_WitnessSaved ==
    /\ wizard.event.add /\ wizard.event.addThrew
    /\ wizard.port = LastPort + 1
    /\ wizard.saves = 1
    /\ LastReport(cli).tag = "incomplete"
    /\ Cardinality(DOMAIN mappings) = 2
    /\ file = JsonText(CalibrationDocument(wizard))

----------------------------------------------------------------------------
(* C20 *)

\* a step of a port before the last ends, and its last scan saw one drive
EndsWithDriveSeen ==
    /\ InStep /\ wizard.port < LastPort
    /\ wizard'.event.ended
    /\ Len(wizard'.event.drives) = 1

C20_Step ==
    /\ EndsWithDriveSeen => "remove" \in wizard'.event.said
    /\ wizard'.port >= LastPort => "remove" \notin wizard'.said

\* C20: for every port but the last, when the step of the port ends and the
\* insertion prompt of the next port is issued, the operator has been asked
\* in that step to remove the drive that was observed at the port; and the
\* removal prompt is not issued at port 7 or after it.
C20_RemoveBeforeNextInsert == [][C20_Step]_vars

----------------------------------------------------------------------------
(* C21 *)

\* the callback of a poll has run to its end in this step
PollCompletes == pc = "monitor_watch" /\ lastPoll' # lastPoll
PollFails == PollCompletes /\ ~lastPoll'.ok

C21_Step ==
    /\ PollFails =>
           /\ lastPoll'.events = <<>>
           /\ previousDrives' = previousDrives
           /\ cli' = cli
           /\ pc' = "monitor_watch"
           /\ inflight' \subseteq inflight
           /\ polls' = polls
    \* watching ends only by the interrupt
    /\ (pc = "monitor_watch" /\ pc' # "monitor_watch") =>
           /\ LastReport(cli').tag = "stopped"
           /\ cli'.exited /\ cli'.status = 0
    /\ (pc = "monitor_watch" /\ pc' = "monitor_watch") => ~cli'.exited

\* C21: a poll whose scan fails reports no appeared and no disappeared
\* event, leaves the retained snapshot as it was and leaves the monitor
\* watching, so that later polls are made; once the initial scan has
\* succeeded the monitor ends only by the interrupt of the operator.
C21_PollFailureIgnored == [][C21_Step]_vars

\* a poll failed while drives were retained, and the poll after it reported
\* against the snapshot that was kept
C21_Witness ==
    /\ pc = "monitor_watch"
    /\ lastPoll.ok /\ lastPoll.id = 2
    /\ lastPoll.failed = {1}
    /\ lastPoll.previous # <<>>
    /\ lastPoll.events # <<>>

\* the poll that failed
C21_WitnessFailed ==
    /\ pc = "monitor_watch"
    /\ ~lastPoll.ok /\ lastPoll.id = 1
    /\ previousDrives = lastPoll.previous
    /\ previousDrives # <<>>

----------------------------------------------------------------------------
(* C22 *)

\* the places where a command waits in ask(): index.js 106, 230, 251, 267,
\* 289, 301, 325, 346
PromptStates ==
    {"status_ask_delete", "calibrate_ask_overwrite", "calibrate_ask_ready", "calibrate_insert",
     "calibrate_ask_retry", "calibrate_ask_extra", "calibrate_ask_remap", "calibrate_ask_remove"}
AtPrompt == ~cli.exited /\ pc \in PromptStates
BetweenPolls == ~cli.exited /\ pc = "monitor_watch"
SignalArrives == ~cli.signal /\ cli'.signal

C22_Step ==
    \* at a prompt the readline interface is held, and with it the handler
    /\ AtPrompt => cli.rl
    /\ ((AtPrompt \/ BetweenPolls) /\ SignalArrives) =>
           /\ ~cli'.rl
           /\ cli'.exited
           /\ cli'.status = 0
           /\ pc' = "exit"
           /\ inflight' = {}
           /\ wizard'.scans = wizard.scans /\ wizard'.said = wizard.said
           /\ polls' = polls /\ lastPoll' = lastPoll /\ previousDrives' = previousDrives
           /\ mappings' = mappings /\ file' = file
    \* nothing happens after the exit
    /\ cli.exited => vars' = vars

\* C22: wherever a command waits at a prompt, and wherever the monitor
\* waits between polls, an interrupt closes the readline interface that the
\* prompt holds and ends the process with status 0; the step makes no
\* prompt, scan or poll, and no step follows the exit.
C22_InterruptEndsCleanly == [][C22_Step]_vars

\* the wizard was interrupted at the remap question of port 2
C22_Witness ==
    /\ cli.signal /\ cli.exited /\ cli.status = 0 /\ ~cli.rl
    /\ cli.cmd = "calibrate"
    /\ wizard.port = 2 /\ "remap" \in wizard.said

\* the monitor was interrupted with a scan in flight
C22_WitnessMonitor ==
    /\ cli.signal /\ cli.exited /\ cli.status = 0
    /\ cli.cmd = "monitor"
    /\ polls = 1 /\ lastPoll = NoPoll /\ inflight = {}

\* status was interrupted at 'Delete and recalibrate?'
C22_WitnessStatus ==
    /\ cli.signal /\ cli.exited /\ cli.status = 0 /\ ~cli.rl
    /\ cli.cmd = "status" /\ cli.recovery

----------------------------------------------------------------------------
(* C23 *)

\* the three lookups agree on an observation: hasMapping is true exactly
\* when getExistingPort returns a port, and exactly when getPhysicalPort does
LookupsAgree(o) ==
    LET has == hasMapping(mappings, o.location, o.parent).bool
        existing == getExistingPort(mappings, o.location, o.parent).val
        physical == getPhysicalPort(mappings, o.location, o.parent).val
    IN  /\ has <=> ValidPort(existing)
        /\ has <=> ValidPort(physical)
        /\ ~has => existing = JsNull /\ physical = JsNull

C23_State ==
    /\ \A key \in DOMAIN mappings : ValidPort(mappings[key])
    /\ \A o \in QueryObs : LookupsAgree(o)

C23_Step ==
    /\ call'.op # "addMapping" => mappings' = mappings
    /\ (call'.op = "addMapping" /\ call'.out.threw) => mappings' = mappings

\* C23: from an empty mapping or the mappings of a validated document, after
\* any sequence of PortMapper calls every value of the mapping is an integer
\* in 1..7; so for every observation hasMapping is true exactly when
\* getExistingPort and getPhysicalPort return a port; and the queries, and
\* an addMapping that throws, leave the mapping as it was.
C23_ValuesArePorts == []C23_State /\ [][C23_Step]_vars

\* hasMapping returns true for a key mapped to the lowest port, asked through
\* the USB 2.0 node, in a mapping of seven entries
C23_Witness ==
    /\ call.op = "hasMapping" /\ call.out.bool
    /\ call.location = ObsMain2Slow.location /\ call.parent = ObsMain2Slow.parent
    /\ mappings[KeyOf(ChipMain, 2)] = JsInt(MinPort)
    /\ Cardinality(DOMAIN mappings) = 7

\* a lookup of an unmapped port of a full mapping returns nothing
C23_WitnessAbsent ==
    /\ call.op = "getExistingPort" /\ call.out.val = JsNull
    /\ call.location = ObsMain3.location /\ call.parent = ObsMain3.parent
    /\ Cardinality(DOMAIN mappings) = 8

----------------------------------------------------------------------------
(* C24 *)

\* the keys mapped to a port
KeysOfPort(m, port) == {key \in DOMAIN m : m[key] = JsInt(port)}
\* the run has printed the summary
AtSummary == pc = "exit" /\ LastReport(cli).tag \in {"complete", "incomplete"}

\* C24: in every state of a calibration run no two keys of the mapper's
\* mapping have the same port, every value is at most the port of the
\* current step, and there are at most 7 entries; at the summary a mapping
\* of 7 entries (isCalibrated) has each port 1..7 as the value of exactly
\* one key.
C24_InjectiveAndBounded ==
    cli.cmd = "calibrate" =>
        /\ \A port \in MinPort..MaxPort : Cardinality(KeysOfPort(mappings, port)) <= 1
        /\ \A key \in DOMAIN mappings :
               /\ ValidPort(mappings[key])
               /\ mappings[key].n <= wizard.port
        /\ Cardinality(DOMAIN mappings) <= LastPort
        /\ (AtSummary /\ isCalibrated(mappings).bool) =>
               \A port \in MinPort..MaxPort : Cardinality(KeysOfPort(mappings, port)) = 1

\* the summary of a complete calibration: seven keys, one for each port
C24_Witness ==
    /\ cli.cmd = "calibrate" /\ AtSummary /\ LastReport(cli).tag = "complete"
    /\ isCalibrated(mappings).bool
    /\ Cardinality(DOMAIN mappings) = LastPort

\* the drive of port 1 was seen again at port 3 and remapped: its key moved
\* to port 3 and no key has port 1
C24_WitnessRemapped ==
    /\ cli.cmd = "calibrate" /\ wizard.port = 3 /\ pc = "calibrate_ask_remove"
    /\ "remap" \in wizard.said
    /\ KeysOfPort(mappings, 1) = {}
    /\ Cardinality(KeysOfPort(mappings, 3)) = 1
    /\ Cardinality(DOMAIN mappings) = 2

----------------------------------------------------------------------------
(* C25 *)

\* the calibrate command has ended in Cancelled
CalibrationCancelled ==
    cli.cmd = "calibrate" /\ pc = "exit" /\ LastReport(cli).tag = "cancelled"

\* C25: a calibration run that ends in Cancelled leaves the file as the run
\* found it (cli.loadedFile is the file that store.load() read at the start
\* of the run), whether it was absent, valid, schema-invalid or unparseable.
C25_CancelLeavesFileAsItWas == CalibrationCancelled => file = cli.loadedFile

----------------------------------------------------------------------------
(* C26 *)

\* a poll's scan succeeded and its snapshot replaces the retained one
SnapshotReplaced == PollCompletes /\ lastPoll'.ok

\* C26: poll results are applied in the order the polls were started: a
\* snapshot that replaces the retained one comes from a poll started after
\* the poll whose scan gave the retained one (lastPoll.source; 0 is the
\* initial scan), also when several callbacks are in flight.
C26_ResultsAppliedInStartOrder == [][SnapshotReplaced => lastPoll'.id > lastPoll.source]_vars

====
